---- MODULE Spec2Model ----
(***************************************************************************)
(* Model of the persistence gateway of the Thoughts application:          *)
(* server/storage.ts (MemStorage and the exported PostgreSQLStorage),     *)
(* the tables of shared/schema.ts and the callers in server/routes.ts.    *)
(*                                                                         *)
(* Strings that the code trims or lower-cases (department names) are      *)
(* sequences of one-character strings, so that trim() and toLowerCase()   *)
(* are computed, not assumed.  null / undefined are the sentinels Null    *)
(* (a name) and NullList (a department list).                             *)
(***************************************************************************)
EXTENDS Integers, Sequences, FiniteSets, TLC

----------------------------------------------------------------------------
(* Bounds of the model *)

MaxClinics == 2

MaxUsers == 1

MaxThoughts == 2

MaxHistory == 3

MaxDepts == 3

MaxTime == 2

\* instants of the clock in one calendar day
TicksPerDay == 2

\* POST /api/system/setup requests in flight
MaxRequests == 3

\* users stored when the routes are exercised
MaxRouteUsers == 3

\* requests to the routes behind requireAuth that are in flight together
MaxRouteRequests == 2

----------------------------------------------------------------------------
(* Strings *)

Null == <<"null">>

NullList == <<Null>>

General == <<"G">>

Administration == <<"M">>

nA == <<"A">>

na == <<"a">>

nB == <<"B">>

nPadA == <<" ", "a", " ">>

nBlank == <<" ">>

\* names handed to the department operations
Names == {nA, na, nB, nPadA, nBlank}

\* names a thought is filed under by createThought / updateThought
ThoughtDepts == {nA, nB, Null}

\* department arrays handed to createClinic / updateClinic
DeptLists == {<<nA>>, <<nA, nB>>, <<nA, nA>>}

IsSpace(c) == c = " "

RECURSIVE TrimStart(_)
TrimStart(s) ==
  IF s # <<>> /\ IsSpace(Head(s)) THEN TrimStart(Tail(s)) ELSE s

RECURSIVE TrimEnd(_)
TrimEnd(s) ==
  IF s # <<>> /\ IsSpace(s[Len(s)]) THEN TrimEnd(SubSeq(s, 1, Len(s) - 1)) ELSE s

\* String.prototype.trim
Trim(s) == TrimEnd(TrimStart(s))

LowerChar(c) ==
  CASE c = "A" -> "a"
    [] c = "B" -> "b"
    [] c = "G" -> "g"
    [] c = "M" -> "m"
    [] OTHER -> c

\* String.prototype.toLowerCase
ToLowerCase(s) == [i \in 1..Len(s) |-> LowerChar(s[i])]

\* JavaScript truthiness of a string-or-null value
Falsy(s) == s = Null \/ s = <<>>

\* clinic.departments || []
OrEmpty(l) == IF l = NullList THEN <<>> ELSE l

\* Array.prototype.findIndex over a predicate given as the set of matching
\* indices; 0 stands for -1
FirstIndex(matching) ==
  IF matching = {} THEN 0 ELSE CHOOSE i \in matching : \A j \in matching : i <= j

\* indices of the entries equal to name when both are lower-cased
LowerMatches(departments, name) ==
  {i \in 1..Len(departments) : ToLowerCase(departments[i]) = ToLowerCase(name)}

\* indices of the entries strictly equal to name (includes / indexOf)
ExactMatches(departments, name) ==
  {i \in 1..Len(departments) : departments[i] = name}

RECURSIVE FilterIdx(_, _, _)
\* departments.filter((_, i) => i !== index), from position k on
FilterIdx(departments, index, k) ==
  IF k > Len(departments) THEN <<>>
  ELSE IF k = index THEN FilterIdx(departments, index, k + 1)
  ELSE <<departments[k]>> \o FilterIdx(departments, index, k + 1)

RECURSIVE FilterNe(_, _)
\* currentDepts.filter(d => d !== department)
FilterNe(departments, department) ==
  IF departments = <<>> THEN <<>>
  ELSE IF Head(departments) = department THEN FilterNe(Tail(departments), department)
  ELSE <<Head(departments)>> \o FilterNe(Tail(departments), department)

----------------------------------------------------------------------------
(* State *)

VARIABLES
  backend,          \* "mem": MemStorage, "pg": PostgreSQLStorage
  users,            \* id -> [role, clinicId]
  clinics,          \* id -> [departments]
  thoughts,         \* id -> Thought
  thoughtHistory,   \* sequence of ThoughtHistory rows, in insertion order
  currentUserId,
  currentClinicId,
  currentThoughtId,
  currentHistoryId,
  now,              \* the clock read by new Date()
  ret,              \* the last call and what it returned: "true", "false",
                    \* "value" (a record or rows), "undefined" or "threw"
  rows,             \* the rows the last getThoughtHistory or
                    \* getThoughtsByClinic returned
  requests          \* POST /api/system/setup: where each request stands

vars == <<backend, users, clinics, thoughts, thoughtHistory, currentUserId,
          currentClinicId, currentThoughtId, currentHistoryId, now, ret, rows,
          requests>>

store == <<users, clinics, thoughts, thoughtHistory, currentUserId,
           currentClinicId, currentThoughtId, currentHistoryId>>

ClinicIds == 1..MaxClinics

UserIds == 1..MaxUsers

ThoughtIds == 1..MaxThoughts

NoId == 0

Requests == 1..MaxRequests

\* a request that has not called the gateway yet
NewRequest == [pc |-> "start", clinicId |-> NoId]

NoTime == 0 - 1

EmptyMap == [x \in {} |-> 0]

\* the outcome of one gateway call
Returned(op, value) == [op |-> op, value |-> value]

Bool(b) == IF b THEN "true" ELSE "false"

\* map with key k set to value v (Map.prototype.set / INSERT)
Put(m, k, v) == [x \in DOMAIN m \cup {k} |-> IF x = k THEN v ELSE m[x]]

\* map without key k (Map.prototype.delete / DELETE)
Drop(m, k) == [x \in DOMAIN m \ {k} |-> m[x]]

\* { ...base, ...updates }: the fields of updates override those of base
Merge(base, updates) ==
  [f \in DOMAIN base |-> IF f \in DOMAIN updates THEN updates[f] ELSE base[f]]

Storage ==
  /\ backend \in {"mem", "pg"}
  /\ users = EmptyMap
  /\ clinics = EmptyMap
  /\ thoughts = EmptyMap
  /\ thoughtHistory = <<>>
  /\ currentUserId = 1
  /\ currentClinicId = 1
  /\ currentThoughtId = 1
  /\ currentHistoryId = 1

Init ==
  /\ Storage
  /\ now = 0
  /\ ret = Returned("none", "none")
  /\ rows = <<>>
  /\ requests = [r \in Requests |-> NewRequest]

\* time passes between two calls
Tick ==
  /\ now < MaxTime
  /\ now' = now + 1
  /\ UNCHANGED <<backend, store, ret, rows, requests>>

----------------------------------------------------------------------------
(* MemStorage: users and clinics *)

MemCreateUser(role, clinicId) ==
  /\ backend = "mem"
  /\ currentUserId <= MaxUsers
  /\ users' = Put(users, currentUserId, [role |-> role, clinicId |-> clinicId])
  /\ currentUserId' = currentUserId + 1
  /\ ret' = Returned("createUser", "value") /\ rows' = <<>>
  /\ UNCHANGED <<backend, clinics, thoughts, thoughtHistory, currentClinicId,
                 currentThoughtId, currentHistoryId, now>>

MemDeleteUser(id) ==
  /\ backend = "mem"
  /\ users' = Drop(users, id)
  /\ ret' = Returned("deleteUser", Bool(id \in DOMAIN users)) /\ rows' = <<>>
  /\ UNCHANGED <<backend, clinics, thoughts, thoughtHistory, currentUserId,
                 currentClinicId, currentThoughtId, currentHistoryId, now>>

MemCreateClinic(departments) ==
  /\ backend = "mem"
  /\ currentClinicId <= MaxClinics
  /\ clinics' = Put(clinics, currentClinicId,
                    [departments |-> IF departments = NullList THEN <<General>>
                                     ELSE departments])
  /\ currentClinicId' = currentClinicId + 1
  /\ ret' = Returned("createClinic", "value") /\ rows' = <<>>
  /\ UNCHANGED <<backend, users, thoughts, thoughtHistory, currentUserId,
                 currentThoughtId, currentHistoryId, now>>

MemUpdateClinic(id, updates) ==
  /\ backend = "mem"
  /\ IF id \notin DOMAIN clinics
     THEN /\ ret' = Returned("updateClinic", "undefined") /\ rows' = <<>>
          /\ UNCHANGED clinics
     ELSE /\ clinics' = [clinics EXCEPT ![id] = Merge(clinics[id], updates)]
          /\ ret' = Returned("updateClinic", "value") /\ rows' = <<>>
  /\ UNCHANGED <<backend, users, thoughts, thoughtHistory, currentUserId,
                 currentClinicId, currentThoughtId, currentHistoryId, now>>

MemDeleteClinic(id) ==
  /\ backend = "mem"
  /\ clinics' = Drop(clinics, id)
  /\ ret' = Returned("deleteClinic", Bool(id \in DOMAIN clinics)) /\ rows' = <<>>
  /\ UNCHANGED <<backend, users, thoughts, thoughtHistory, currentUserId,
                 currentClinicId, currentThoughtId, currentHistoryId, now>>

\* this.users.size > 0
MemHasAnyUsers == DOMAIN users # {}

\* the clinic setupFirstAdmin stores (departments NullList: none given)
MemSetupClinic(departments) ==
  [departments |-> IF departments = NullList THEN <<General, Administration>>
                   ELSE departments]

\* the user setupFirstAdmin stores: the given user with the role overridden
MemSetupUser(role, clinicId) == [role |-> "admin", clinicId |-> clinicId]

MemSetupFirstAdmin(role, departments) ==
  /\ backend = "mem"
  /\ clinics' = Put(clinics, currentClinicId, MemSetupClinic(departments))
  /\ currentClinicId' = currentClinicId + 1
  /\ users' = Put(users, currentUserId, MemSetupUser(role, currentClinicId))
  /\ currentUserId' = currentUserId + 1
  /\ ret' = Returned("setupFirstAdmin", "value") /\ rows' = <<>>
  /\ UNCHANGED <<backend, thoughts, thoughtHistory, currentThoughtId,
                 currentHistoryId, now>>

----------------------------------------------------------------------------
(* MemStorage: department operations *)

\* the thoughts after the cascade loop: every thought of the clinic filed
\* under exactly `from` is filed under `to`
Cascade(clinicId, from, to) ==
  [t \in DOMAIN thoughts |->
     IF thoughts[t].department = from /\ thoughts[t].clinicId = clinicId
     THEN [thoughts[t] EXCEPT !.department = to]
     ELSE thoughts[t]]

MemAddDepartmentToClinic(clinicId, department) ==
  /\ backend = "mem"
  /\ LET trimmedDepartment == Trim(department)
         departments == IF clinicId \in DOMAIN clinics
                        THEN OrEmpty(clinics[clinicId].departments) ELSE <<>>
         departmentExists == LowerMatches(departments, trimmedDepartment) # {}
         ok == /\ clinicId \in DOMAIN clinics
               /\ trimmedDepartment # <<>>
               /\ ~departmentExists
     IN /\ ok => Len(departments) < MaxDepts
        /\ clinics' = IF ok
                      THEN [clinics EXCEPT ![clinicId].departments =
                              Append(departments, trimmedDepartment)]
                      ELSE clinics
        /\ ret' = Returned("addDepartmentToClinic", Bool(ok)) /\ rows' = <<>>
  /\ UNCHANGED <<backend, users, thoughts, thoughtHistory, currentUserId,
                 currentClinicId, currentThoughtId, currentHistoryId, now>>

MemUpdateDepartmentInClinic(clinicId, oldDepartment, newDepartment) ==
  /\ backend = "mem"
  /\ LET trimmedOld == Trim(oldDepartment)
         trimmedNew == Trim(newDepartment)
         departments == IF clinicId \in DOMAIN clinics
                        THEN OrEmpty(clinics[clinicId].departments) ELSE <<>>
         oldIndex == FirstIndex(LowerMatches(departments, trimmedOld))
         newExists == LowerMatches(departments, trimmedNew) \ {oldIndex} # {}
         ok == /\ clinicId \in DOMAIN clinics
               /\ trimmedOld # <<>>
               /\ trimmedNew # <<>>
               /\ oldIndex # 0
               /\ ~newExists
     IN /\ thoughts' = IF ok THEN Cascade(clinicId, departments[oldIndex], trimmedNew)
                       ELSE thoughts
        /\ clinics' = IF ok
                      THEN [clinics EXCEPT ![clinicId].departments =
                              [departments EXCEPT ![oldIndex] = trimmedNew]]
                      ELSE clinics
        /\ ret' = Returned("updateDepartmentInClinic", Bool(ok)) /\ rows' = <<>>
  /\ UNCHANGED <<backend, users, thoughtHistory, currentUserId, currentClinicId,
                 currentThoughtId, currentHistoryId, now>>

\* the position removeDepartmentFromClinic removes (0: none)
MemRemoveIndex(departments, department) ==
  FirstIndex(LowerMatches(departments, Trim(department)))

\* the checks removeDepartmentFromClinic makes on a known clinic's list
MemRemoveAllowed(departments, department) ==
  /\ Trim(department) # <<>>
  /\ MemRemoveIndex(departments, department) # 0
  /\ ~(Len(departments) <= 1)

\* a list that lost its first entry, whichever entry was named
MemUpdatedDepartments_First(departments, department) == Tail(departments)

\* the list removeDepartmentFromClinic stores
MemUpdatedDepartments(departments, department) ==
  FilterIdx(departments, MemRemoveIndex(departments, department), 1)

MemRemoveDepartmentFromClinic(clinicId, department) ==
  /\ backend = "mem"
  /\ LET departments == IF clinicId \in DOMAIN clinics
                        THEN OrEmpty(clinics[clinicId].departments) ELSE <<>>
         ok == /\ clinicId \in DOMAIN clinics
               /\ MemRemoveAllowed(departments, department)
         departmentToRemove == departments[MemRemoveIndex(departments, department)]
         updatedDepartments == MemUpdatedDepartments(departments, department)
         fallback == IF updatedDepartments = <<>> \/ Falsy(updatedDepartments[1])
                     THEN General ELSE updatedDepartments[1]
     IN /\ thoughts' = IF ok THEN Cascade(clinicId, departmentToRemove, fallback)
                       ELSE thoughts
        /\ clinics' = IF ok
                      THEN [clinics EXCEPT ![clinicId].departments = updatedDepartments]
                      ELSE clinics
        /\ ret' = Returned("removeDepartmentFromClinic", Bool(ok)) /\ rows' = <<>>
  /\ UNCHANGED <<backend, users, thoughtHistory, currentUserId, currentClinicId,
                 currentThoughtId, currentHistoryId, now>>

----------------------------------------------------------------------------
(* MemStorage: thoughts and their history *)

\* values an InsertThought carries (category "undefined": the field is absent)
Titles == {"t1", "t2"}

Contents == {"c1", "c2"}

Categories == {"undefined", "idea"}

\* the partial updates handed to updateThought
ThoughtUpdates ==
  {[title |-> "t2"], [content |-> "c2", category |-> "idea"], [department |-> nB]}

\* a row that records every change as an edit
HistoryEntry_AlwaysEdited(id, thoughtId, thought, userId, changeType) ==
  [id |-> id, thoughtId |-> thoughtId, title |-> thought.title,
   content |-> thought.content, category |-> thought.category,
   department |-> thought.department, editedBy |-> userId, editedAt |-> now,
   changeType |-> "edited"]

\* the row createHistoryEntry builds from a thought
HistoryEntry(id, thoughtId, thought, userId, changeType) ==
  [id |-> id, thoughtId |-> thoughtId, title |-> thought.title,
   content |-> thought.content, category |-> thought.category,
   department |-> thought.department, editedBy |-> userId, editedAt |-> now,
   changeType |-> changeType]

\* a log keyed by thought: the entry replaces the thought's previous one
createHistoryEntry_PerThought(thoughtId, thought, userId, changeType) ==
  LET entry == HistoryEntry(currentHistoryId, thoughtId, thought, userId, changeType)
      previous == {i \in 1..Len(thoughtHistory) : thoughtHistory[i].thoughtId = thoughtId}
  IN IF previous = {} THEN Append(thoughtHistory, entry)
     ELSE [thoughtHistory EXCEPT ![FirstIndex(previous)] = entry]

\* MemStorage.createHistoryEntry: the log after the entry is stored
createHistoryEntry(thoughtId, thought, userId, changeType) ==
  Append(thoughtHistory,
         HistoryEntry(currentHistoryId, thoughtId, thought, userId, changeType))

MemCreateThought(insertThought, userId) ==
  /\ backend = "mem"
  /\ currentThoughtId <= MaxThoughts
  /\ Len(thoughtHistory) < MaxHistory
  /\ LET thought ==
           [clinicId |-> insertThought.clinicId,
            title |-> insertThought.title,
            content |-> insertThought.content,
            category |-> IF insertThought.category = "undefined" THEN "General"
                         ELSE insertThought.category,
            department |-> IF Falsy(insertThought.department) THEN Null
                           ELSE insertThought.department,
            authorId |-> insertThought.authorId,
            isDeleted |-> FALSE, deletedAt |-> NoTime, deletedBy |-> NoId,
            editCount |-> 0, lastEditedAt |-> NoTime, lastEditedBy |-> NoId,
            isRead |-> FALSE, readAt |-> NoTime, createdAt |-> now]
     IN /\ thoughts' = Put(thoughts, currentThoughtId, thought)
        /\ thoughtHistory' = createHistoryEntry(currentThoughtId, thought, userId, "created")
  /\ currentThoughtId' = currentThoughtId + 1
  /\ currentHistoryId' = currentHistoryId + 1
  /\ ret' = Returned("createThought", "value") /\ rows' = <<>>
  /\ UNCHANGED <<backend, users, clinics, currentUserId, currentClinicId, now>>

\* a thought with editCount still as it was before the update
MemUpdatedThought_StaleCount(thought, updates, userId) ==
  [Merge(thought, updates) EXCEPT !.lastEditedAt = now, !.lastEditedBy = userId]

\* an updateThought that restores a deleted thought
MemUpdatedThought_Restores(thought, updates, userId) ==
  [Merge(thought, updates) EXCEPT
     !.editCount = thought.editCount + 1,
     !.lastEditedAt = now,
     !.lastEditedBy = userId,
     !.isDeleted = FALSE,
     !.deletedAt = NoTime,
     !.deletedBy = NoId]

\* the record updateThought stores: the updates over the thought, then the
\* edit counter and stamps
MemUpdatedThought(thought, updates, userId) ==
  [Merge(thought, updates) EXCEPT
     !.editCount = thought.editCount + 1,
     !.lastEditedAt = now,
     !.lastEditedBy = userId]

MemUpdateThought(id, updates, userId) ==
  /\ backend = "mem"
  /\ IF id \notin DOMAIN thoughts
     THEN /\ ret' = Returned("updateThought", "undefined") /\ rows' = <<>>
          /\ UNCHANGED <<thoughts, thoughtHistory, currentHistoryId>>
     ELSE /\ Len(thoughtHistory) < MaxHistory
          /\ LET updatedThought == MemUpdatedThought(thoughts[id], updates, userId)
             IN /\ thoughts' = [thoughts EXCEPT ![id] = updatedThought]
                /\ thoughtHistory' = createHistoryEntry(id, updatedThought, userId, "edited")
          /\ currentHistoryId' = currentHistoryId + 1
          /\ ret' = Returned("updateThought", "value") /\ rows' = <<>>
  /\ UNCHANGED <<backend, users, clinics, currentUserId, currentClinicId,
                 currentThoughtId, now>>

\* a deleteThought that also marks the thought as unread
MemDeleteThought_ClearsRead(id, userId) ==
  /\ backend = "mem"
  /\ IF id \notin DOMAIN thoughts
     THEN /\ ret' = Returned("deleteThought", "false") /\ rows' = <<>>
          /\ UNCHANGED <<thoughts, thoughtHistory, currentHistoryId>>
     ELSE /\ Len(thoughtHistory) < MaxHistory
          /\ thoughts' = [thoughts EXCEPT ![id].isDeleted = TRUE,
                                          ![id].deletedAt = now,
                                          ![id].deletedBy = userId,
                                          ![id].isRead = FALSE]
          /\ thoughtHistory' = createHistoryEntry(id, thoughts'[id], userId, "deleted")
          /\ currentHistoryId' = currentHistoryId + 1
          /\ ret' = Returned("deleteThought", "true") /\ rows' = <<>>
  /\ UNCHANGED <<backend, users, clinics, currentUserId, currentClinicId,
                 currentThoughtId, now>>

\* a deleteThought that reports success whether or not the id is stored
MemDeleteThought_AlwaysTrue(id, userId) ==
  /\ backend = "mem"
  /\ ret' = Returned("deleteThought", "true") /\ rows' = <<>>
  /\ IF id \notin DOMAIN thoughts
     THEN UNCHANGED <<thoughts, thoughtHistory, currentHistoryId>>
     ELSE /\ Len(thoughtHistory) < MaxHistory
          /\ thoughts' = [thoughts EXCEPT ![id].isDeleted = TRUE,
                                          ![id].deletedAt = now,
                                          ![id].deletedBy = userId]
          /\ thoughtHistory' = createHistoryEntry(id, thoughts'[id], userId, "deleted")
          /\ currentHistoryId' = currentHistoryId + 1
  /\ UNCHANGED <<backend, users, clinics, currentUserId, currentClinicId,
                 currentThoughtId, now>>

MemDeleteThought(id, userId) ==
  /\ backend = "mem"
  /\ IF id \notin DOMAIN thoughts
     THEN /\ ret' = Returned("deleteThought", "false") /\ rows' = <<>>
          /\ UNCHANGED <<thoughts, thoughtHistory, currentHistoryId>>
     ELSE /\ Len(thoughtHistory) < MaxHistory
          /\ LET deletedThought ==
                   [thoughts[id] EXCEPT !.isDeleted = TRUE, !.deletedAt = now,
                                        !.deletedBy = userId]
             IN /\ thoughts' = [thoughts EXCEPT ![id] = deletedThought]
                /\ thoughtHistory' = createHistoryEntry(id, deletedThought, userId, "deleted")
          /\ currentHistoryId' = currentHistoryId + 1
          /\ ret' = Returned("deleteThought", "true") /\ rows' = <<>>
  /\ UNCHANGED <<backend, users, clinics, currentUserId, currentClinicId,
                 currentThoughtId, now>>

\* a markThoughtAsRead that counts the reading as an edit
MemMarkThoughtAsRead_CountsEdit(thoughtId) ==
  /\ backend = "mem"
  /\ IF thoughtId \notin DOMAIN thoughts
     THEN /\ ret' = Returned("markThoughtAsRead", "false") /\ rows' = <<>>
          /\ UNCHANGED thoughts
     ELSE /\ thoughts' = [thoughts EXCEPT ![thoughtId].isRead = TRUE,
                                          ![thoughtId].readAt = now,
                                          ![thoughtId].lastEditedAt = now]
          /\ ret' = Returned("markThoughtAsRead", "true") /\ rows' = <<>>
  /\ UNCHANGED <<backend, users, clinics, thoughtHistory, currentUserId,
                 currentClinicId, currentThoughtId, currentHistoryId, now>>

MemMarkThoughtAsRead(thoughtId) ==
  /\ backend = "mem"
  /\ IF thoughtId \notin DOMAIN thoughts
     THEN /\ ret' = Returned("markThoughtAsRead", "false") /\ rows' = <<>>
          /\ UNCHANGED thoughts
     ELSE /\ thoughts' = [thoughts EXCEPT ![thoughtId].isRead = TRUE,
                                          ![thoughtId].readAt = now]
          /\ ret' = Returned("markThoughtAsRead", "true") /\ rows' = <<>>
  /\ UNCHANGED <<backend, users, clinics, thoughtHistory, currentUserId,
                 currentClinicId, currentThoughtId, currentHistoryId, now>>

----------------------------------------------------------------------------
(* getThoughtHistory *)

\* the stored entries of one thought, in insertion order
RECURSIVE EntriesOf(_, _)
EntriesOf(history, thoughtId) ==
  IF history = <<>> THEN <<>>
  ELSE IF Head(history).thoughtId = thoughtId
       THEN <<Head(history)>> \o EntriesOf(Tail(history), thoughtId)
       ELSE EntriesOf(Tail(history), thoughtId)

\* Array.prototype.sort by editedAt descending (stable): insert e into a
\* sorted sequence after the entries that are at least as recent
RECURSIVE InsertDesc(_, _)
InsertDesc(sorted, e) ==
  IF sorted = <<>> THEN <<e>>
  ELSE IF Head(sorted).editedAt >= e.editedAt
       THEN <<Head(sorted)>> \o InsertDesc(Tail(sorted), e)
       ELSE <<e>> \o sorted

RECURSIVE SortDesc(_)
SortDesc(entries) ==
  IF entries = <<>> THEN <<>>
  ELSE InsertDesc(SortDesc(SubSeq(entries, 1, Len(entries) - 1)), entries[Len(entries)])

\* the user joined to a history entry or, in MemStorage, its placeholder
StoredUser(id) ==
  [id |-> id, username |-> "user", role |-> users[id].role,
   clinicId |-> users[id].clinicId]

UnknownUser(id) ==
  [id |-> id, username |-> "Unknown User", role |-> "user", clinicId |-> NoId]

WithUser(entry) ==
  [id |-> entry.id, thoughtId |-> entry.thoughtId, title |-> entry.title,
   content |-> entry.content, category |-> entry.category,
   department |-> entry.department, editedBy |-> entry.editedBy,
   editedAt |-> entry.editedAt, changeType |-> entry.changeType,
   editedByUser |-> IF entry.editedBy \in DOMAIN users
                    THEN StoredUser(entry.editedBy)
                    ELSE UnknownUser(entry.editedBy)]

\* what MemStorage.getThoughtHistory returns
MemThoughtHistoryRows(thoughtId) ==
  LET historyEntries == SortDesc(EntriesOf(thoughtHistory, thoughtId))
      result == [i \in 1..Len(historyEntries) |-> WithUser(historyEntries[i])]
  IN IF Len(result) = 0 /\ thoughtId \in DOMAIN thoughts
     THEN LET currentThought == thoughts[thoughtId]
          IN <<WithUser([id |-> now, thoughtId |-> thoughtId,
                         title |-> currentThought.title,
                         content |-> currentThought.content,
                         category |-> currentThought.category,
                         department |-> currentThought.department,
                         editedBy |-> currentThought.authorId,
                         editedAt |-> currentThought.createdAt,
                         changeType |-> "created"])>>
     ELSE result

MemGetThoughtHistory(thoughtId) ==
  /\ backend = "mem"
  /\ ret' = Returned("getThoughtHistory", "value") /\ rows' = MemThoughtHistoryRows(thoughtId)
  /\ UNCHANGED <<backend, store, now>>

----------------------------------------------------------------------------
(* PostgreSQLStorage.  The tables of shared/schema.ts declare foreign keys  *)
(* without ON DELETE, so a statement that would leave or create a dangling  *)
(* reference is rejected by the database and the call throws.               *)

\* some row references users.id = id
UserReferenced(id) ==
  \/ \E t \in DOMAIN thoughts :
       \/ thoughts[t].authorId = id
       \/ thoughts[t].deletedBy = id
       \/ thoughts[t].lastEditedBy = id
  \/ \E i \in 1..Len(thoughtHistory) : thoughtHistory[i].editedBy = id

\* some row references clinics.id = id
ClinicReferenced(id) ==
  \/ \E u \in DOMAIN users : users[u].clinicId = id
  \/ \E t \in DOMAIN thoughts : thoughts[t].clinicId = id

PgCreateUser(role, clinicId) ==
  /\ backend = "pg"
  /\ currentUserId <= MaxUsers
  /\ IF clinicId # NoId /\ clinicId \notin DOMAIN clinics
     THEN /\ ret' = Returned("createUser", "threw") /\ rows' = <<>>
          /\ UNCHANGED <<users, currentUserId>>
     ELSE /\ users' = Put(users, currentUserId, [role |-> role, clinicId |-> clinicId])
          /\ currentUserId' = currentUserId + 1
          /\ ret' = Returned("createUser", "value") /\ rows' = <<>>
  /\ UNCHANGED <<backend, clinics, thoughts, thoughtHistory, currentClinicId,
                 currentThoughtId, currentHistoryId, now>>

PgDeleteUser(id) ==
  /\ backend = "pg"
  /\ IF id \in DOMAIN users /\ UserReferenced(id)
     THEN /\ ret' = Returned("deleteUser", "threw") /\ rows' = <<>>
          /\ UNCHANGED users
     ELSE /\ users' = Drop(users, id)
          /\ ret' = Returned("deleteUser", Bool(id \in DOMAIN users)) /\ rows' = <<>>
  /\ UNCHANGED <<backend, clinics, thoughts, thoughtHistory, currentUserId,
                 currentClinicId, currentThoughtId, currentHistoryId, now>>

PgCreateClinic(departments) ==
  /\ backend = "pg"
  /\ currentClinicId <= MaxClinics
  /\ clinics' = Put(clinics, currentClinicId, [departments |-> departments])
  /\ currentClinicId' = currentClinicId + 1
  /\ ret' = Returned("createClinic", "value") /\ rows' = <<>>
  /\ UNCHANGED <<backend, users, thoughts, thoughtHistory, currentUserId,
                 currentThoughtId, currentHistoryId, now>>

\* the clinics table after UPDATE clinics SET updates WHERE id = id
PgSetClinic(id, updates) ==
  IF id \in DOMAIN clinics
  THEN [clinics EXCEPT ![id] = Merge(clinics[id], updates)]
  ELSE clinics

PgUpdateClinic(id, updates) ==
  /\ backend = "pg"
  /\ clinics' = PgSetClinic(id, updates)
  /\ ret' = Returned("updateClinic", (IF id \in DOMAIN clinics THEN "value" ELSE "undefined"))
  /\ rows' = <<>>
  /\ UNCHANGED <<backend, users, thoughts, thoughtHistory, currentUserId,
                 currentClinicId, currentThoughtId, currentHistoryId, now>>

PgDeleteClinic(id) ==
  /\ backend = "pg"
  /\ IF id \in DOMAIN clinics /\ ClinicReferenced(id)
     THEN /\ ret' = Returned("deleteClinic", "threw") /\ rows' = <<>>
          /\ UNCHANGED clinics
     ELSE /\ clinics' = Drop(clinics, id)
          /\ ret' = Returned("deleteClinic", Bool(id \in DOMAIN clinics)) /\ rows' = <<>>
  /\ UNCHANGED <<backend, users, thoughts, thoughtHistory, currentUserId,
                 currentClinicId, currentThoughtId, currentHistoryId, now>>

\* SELECT * FROM users LIMIT 1 gave a row
PgHasAnyUsers == DOMAIN users # {}

\* the row INSERT INTO clinics stores for data.clinic
PgSetupClinic(departments) == [departments |-> departments]

\* the row INSERT INTO users stores for {...data.user, clinicId}; a user
\* without a role ("undefined") gets the column default
PgSetupUser(role, clinicId) ==
  [role |-> IF role = "undefined" THEN "user" ELSE role, clinicId |-> clinicId]

\* setupFirstAdmin, first statement
PgSetupInsertClinic(departments) ==
  /\ backend = "pg"
  /\ clinics' = Put(clinics, currentClinicId, PgSetupClinic(departments))
  /\ currentClinicId' = currentClinicId + 1
  /\ ret' = Returned("setupFirstAdmin", "pending") /\ rows' = <<>>
  /\ UNCHANGED <<backend, users, thoughts, thoughtHistory, currentUserId,
                 currentThoughtId, currentHistoryId, now>>

\* setupFirstAdmin, second statement and return
PgSetupInsertUser(role, clinicId) ==
  /\ backend = "pg"
  /\ IF clinicId \notin DOMAIN clinics
     THEN /\ ret' = Returned("setupFirstAdmin", "threw") /\ rows' = <<>>
          /\ UNCHANGED <<users, currentUserId>>
     ELSE /\ users' = Put(users, currentUserId, PgSetupUser(role, clinicId))
          /\ currentUserId' = currentUserId + 1
          /\ ret' = Returned("setupFirstAdmin", "value") /\ rows' = <<>>
  /\ UNCHANGED <<backend, clinics, thoughts, thoughtHistory, currentClinicId,
                 currentThoughtId, currentHistoryId, now>>

\* setupFirstAdmin when no other call runs between its two statements
PgSetupFirstAdmin(role, departments) ==
  /\ backend = "pg"
  /\ clinics' = Put(clinics, currentClinicId, PgSetupClinic(departments))
  /\ currentClinicId' = currentClinicId + 1
  /\ users' = Put(users, currentUserId, PgSetupUser(role, currentClinicId))
  /\ currentUserId' = currentUserId + 1
  /\ ret' = Returned("setupFirstAdmin", "value") /\ rows' = <<>>
  /\ UNCHANGED <<backend, thoughts, thoughtHistory, currentThoughtId,
                 currentHistoryId, now>>

PgAddDepartmentToClinic(clinicId, department) ==
  /\ backend = "pg"
  /\ LET currentDepts == IF clinicId \in DOMAIN clinics
                         THEN OrEmpty(clinics[clinicId].departments) ELSE <<>>
         ok == /\ clinicId \in DOMAIN clinics
               /\ ExactMatches(currentDepts, department) = {}
         updatedDepts == Append(currentDepts, department)
     IN /\ ok => Len(currentDepts) < MaxDepts
        /\ clinics' = IF ok THEN PgSetClinic(clinicId, [departments |-> updatedDepts])
                      ELSE clinics
        /\ ret' = Returned("addDepartmentToClinic", Bool(ok)) /\ rows' = <<>>
  /\ UNCHANGED <<backend, users, thoughts, thoughtHistory, currentUserId,
                 currentClinicId, currentThoughtId, currentHistoryId, now>>

PgUpdateDepartmentInClinic(clinicId, oldDepartment, newDepartment) ==
  /\ backend = "pg"
  /\ LET currentDepts == IF clinicId \in DOMAIN clinics
                         THEN OrEmpty(clinics[clinicId].departments) ELSE <<>>
         index == FirstIndex(ExactMatches(currentDepts, oldDepartment))
         ok == /\ clinicId \in DOMAIN clinics
               /\ ~(index = 0 \/ ExactMatches(currentDepts, newDepartment) # {})
     IN /\ clinics' = IF ok
                      THEN PgSetClinic(clinicId,
                             [departments |-> [currentDepts EXCEPT ![index] = newDepartment]])
                      ELSE clinics
        /\ ret' = Returned("updateDepartmentInClinic", Bool(ok)) /\ rows' = <<>>
  /\ UNCHANGED <<backend, users, thoughts, thoughtHistory, currentUserId,
                 currentClinicId, currentThoughtId, currentHistoryId, now>>

\* the check removeDepartmentFromClinic makes on a known clinic's list
PgRemoveAllowed(currentDepts, department) == ~(Len(currentDepts) <= 1)

\* the list removeDepartmentFromClinic stores
PgUpdatedDepts(currentDepts, department) == FilterNe(currentDepts, department)

PgRemoveDepartmentFromClinic(clinicId, department) ==
  /\ backend = "pg"
  /\ LET currentDepts == IF clinicId \in DOMAIN clinics
                         THEN OrEmpty(clinics[clinicId].departments) ELSE <<>>
         ok == /\ clinicId \in DOMAIN clinics
               /\ PgRemoveAllowed(currentDepts, department)
         updatedDepts == PgUpdatedDepts(currentDepts, department)
     IN /\ clinics' = IF ok THEN PgSetClinic(clinicId, [departments |-> updatedDepts])
                      ELSE clinics
        /\ ret' = Returned("removeDepartmentFromClinic", Bool(ok)) /\ rows' = <<>>
  /\ UNCHANGED <<backend, users, thoughts, thoughtHistory, currentUserId,
                 currentClinicId, currentThoughtId, currentHistoryId, now>>

----------------------------------------------------------------------------
(* PostgreSQLStorage: thoughts and their history *)

\* INSERT INTO thought_history: the log after the row is stored
PgInsertHistory(thoughtId, thought, userId, changeType) ==
  Append(thoughtHistory,
         HistoryEntry(currentHistoryId, thoughtId, thought, userId, changeType))

PgCreateThought(insertThought, userId) ==
  /\ backend = "pg"
  /\ currentThoughtId <= MaxThoughts
  /\ Len(thoughtHistory) < MaxHistory
  /\ LET newThought ==
           [clinicId |-> insertThought.clinicId,
            title |-> insertThought.title,
            content |-> insertThought.content,
            category |-> IF insertThought.category = "undefined" THEN "general"
                         ELSE insertThought.category,
            department |-> insertThought.department,
            authorId |-> insertThought.authorId,
            isDeleted |-> FALSE, deletedAt |-> NoTime, deletedBy |-> NoId,
            editCount |-> 0, lastEditedAt |-> NoTime, lastEditedBy |-> NoId,
            isRead |-> FALSE, readAt |-> NoTime, createdAt |-> now]
     IN IF \/ insertThought.authorId \notin DOMAIN users
           \/ insertThought.clinicId \notin DOMAIN clinics
        THEN \* the insert into thoughts is rejected
             /\ ret' = Returned("createThought", "threw") /\ rows' = <<>>
             /\ UNCHANGED <<thoughts, thoughtHistory, currentThoughtId, currentHistoryId>>
        ELSE /\ thoughts' = Put(thoughts, currentThoughtId, newThought)
             /\ currentThoughtId' = currentThoughtId + 1
             /\ IF userId \notin DOMAIN users
                THEN \* the insert into thought_history is rejected
                     /\ ret' = Returned("createThought", "threw") /\ rows' = <<>>
                     /\ UNCHANGED <<thoughtHistory, currentHistoryId>>
                ELSE /\ thoughtHistory' =
                          PgInsertHistory(currentThoughtId, newThought, userId, "created")
                     /\ currentHistoryId' = currentHistoryId + 1
                     /\ ret' = Returned("createThought", "value") /\ rows' = <<>>
  /\ UNCHANGED <<backend, users, clinics, currentUserId, currentClinicId, now>>

\* the foreign keys of a thoughts row hold
ThoughtRefsOk(thought) ==
  /\ thought.authorId \in DOMAIN users
  /\ thought.clinicId \in DOMAIN clinics
  /\ thought.lastEditedBy \in DOMAIN users \cup {NoId}
  /\ thought.deletedBy \in DOMAIN users \cup {NoId}

\* the row UPDATE thoughts SET ... RETURNING gives
PgUpdatedThought(thought, updates, userId) ==
  [Merge(thought, updates) EXCEPT
     !.editCount = thought.editCount + 1,
     !.lastEditedAt = now,
     !.lastEditedBy = userId]

PgUpdateThought(id, updates, userId) ==
  /\ backend = "pg"
  /\ IF id \notin DOMAIN thoughts
     THEN /\ ret' = Returned("updateThought", "undefined") /\ rows' = <<>>
          /\ UNCHANGED <<thoughts, thoughtHistory, currentHistoryId>>
     ELSE LET updatedThought == PgUpdatedThought(thoughts[id], updates, userId)
          IN IF ~ThoughtRefsOk(updatedThought)
             THEN /\ ret' = Returned("updateThought", "threw") /\ rows' = <<>>
                  /\ UNCHANGED <<thoughts, thoughtHistory, currentHistoryId>>
             ELSE /\ Len(thoughtHistory) < MaxHistory
                  /\ thoughts' = [thoughts EXCEPT ![id] = updatedThought]
                  /\ thoughtHistory' = PgInsertHistory(id, updatedThought, userId, "edited")
                  /\ currentHistoryId' = currentHistoryId + 1
                  /\ ret' = Returned("updateThought", "value") /\ rows' = <<>>
  /\ UNCHANGED <<backend, users, clinics, currentUserId, currentClinicId,
                 currentThoughtId, now>>

PgDeleteThought(id, userId) ==
  /\ backend = "pg"
  /\ IF id \notin DOMAIN thoughts
     THEN /\ ret' = Returned("deleteThought", "false") /\ rows' = <<>>
          /\ UNCHANGED <<thoughts, thoughtHistory, currentHistoryId>>
     ELSE LET deletedThought ==
                [thoughts[id] EXCEPT !.isDeleted = TRUE, !.deletedAt = now,
                                     !.deletedBy = userId]
          IN IF ~ThoughtRefsOk(deletedThought)
             THEN /\ ret' = Returned("deleteThought", "threw") /\ rows' = <<>>
                  /\ UNCHANGED <<thoughts, thoughtHistory, currentHistoryId>>
             ELSE /\ Len(thoughtHistory) < MaxHistory
                  /\ thoughts' = [thoughts EXCEPT ![id] = deletedThought]
                  /\ thoughtHistory' = PgInsertHistory(id, deletedThought, userId, "deleted")
                  /\ currentHistoryId' = currentHistoryId + 1
                  /\ ret' = Returned("deleteThought", "true") /\ rows' = <<>>
  /\ UNCHANGED <<backend, users, clinics, currentUserId, currentClinicId,
                 currentThoughtId, now>>

PgMarkThoughtAsRead(thoughtId) ==
  /\ backend = "pg"
  /\ thoughts' = IF thoughtId \in DOMAIN thoughts
                 THEN [thoughts EXCEPT ![thoughtId].isRead = TRUE,
                                       ![thoughtId].readAt = now]
                 ELSE thoughts
  /\ ret' = Returned("markThoughtAsRead", Bool(thoughtId \in DOMAIN thoughts)) /\ rows' = <<>>
  /\ UNCHANGED <<backend, users, clinics, thoughtHistory, currentUserId,
                 currentClinicId, currentThoughtId, currentHistoryId, now>>

\* the rows of thought_history INNER JOIN users for one thought
RECURSIVE JoinedEntriesOf(_, _)
JoinedEntriesOf(history, thoughtId) ==
  IF history = <<>> THEN <<>>
  ELSE IF Head(history).thoughtId = thoughtId /\ Head(history).editedBy \in DOMAIN users
       THEN <<WithUser(Head(history))>> \o JoinedEntriesOf(Tail(history), thoughtId)
       ELSE JoinedEntriesOf(Tail(history), thoughtId)

\* ORDER BY edited_at DESC: every arrangement of the rows that is ordered;
\* the order of rows with equal edited_at is the database's choice
OrderedDesc(joined) ==
  LET n == Len(joined)
      perms == {p \in [1..n -> 1..n] : \A i, j \in 1..n : i # j => p[i] # p[j]}
      ordered == {q \in perms : \A i \in 1..n : \A j \in 1..n :
                    i < j => joined[q[i]].editedAt >= joined[q[j]].editedAt}
  IN {[i \in 1..n |-> joined[p[i]]] : p \in ordered}

\* what PostgreSQLStorage.getThoughtHistory can return
PgThoughtHistoryRows(thoughtId) ==
  OrderedDesc(JoinedEntriesOf(thoughtHistory, thoughtId))

PgGetThoughtHistory(thoughtId) ==
  /\ backend = "pg"
  /\ \E result \in PgThoughtHistoryRows(thoughtId) :
       ret' = Returned("getThoughtHistory", "value") /\ rows' = result
  /\ UNCHANGED <<backend, store, now>>

----------------------------------------------------------------------------
(* getThoughtsByClinic.  A date string names a calendar day; new Date(s) is *)
(* the first instant of that day and setHours(23, 59, 59, 999) moves it to  *)
(* the last instant of the day (the server's time zone is taken to be UTC). *)

\* an absent startDate / endDate
NoDate == 0 - 1

\* new Date(filters.startDate)
StartOfDay(day) == day * TicksPerDay

\* new Date(filters.endDate) after setHours(23, 59, 59, 999)
EndOfDay(day) == StartOfDay(day) + TicksPerDay - 1

\* a thought as getThoughtsByClinic returns it
WithAuthor(id) ==
  [id |-> id, thought |-> thoughts[id], author |-> StoredUser(thoughts[id].authorId)]

\* the filter chain of MemStorage.getThoughtsByClinic
MemPassesFilters(thought, clinicId, includeDeleted, filters) ==
  /\ thought.clinicId = clinicId
  /\ includeDeleted \/ ~thought.isDeleted
  /\ filters.startDate # NoDate => thought.createdAt >= StartOfDay(filters.startDate)
  /\ filters.endDate # NoDate => thought.createdAt <= EndOfDay(filters.endDate)
  /\ filters.userId # NoId => thought.authorId = filters.userId
  /\ ~Falsy(filters.department) => thought.department = filters.department
  /\ filters.includeRead = "false" => ~thought.isRead

\* Array.prototype.sort by createdAt descending (stable) over ids taken in
\* the insertion order of the Map
RECURSIVE InsertByCreatedDesc(_, _)
InsertByCreatedDesc(sorted, id) ==
  IF sorted = <<>> THEN <<id>>
  ELSE IF thoughts[Head(sorted)].createdAt >= thoughts[id].createdAt
       THEN <<Head(sorted)>> \o InsertByCreatedDesc(Tail(sorted), id)
       ELSE <<id>> \o sorted

RECURSIVE MemSortedIds(_, _)
\* the ids of `kept` among 1..n, sorted
MemSortedIds(kept, n) ==
  IF n = 0 THEN <<>>
  ELSE IF n \in kept THEN InsertByCreatedDesc(MemSortedIds(kept, n - 1), n)
       ELSE MemSortedIds(kept, n - 1)

\* what MemStorage.getThoughtsByClinic returns
MemThoughtsByClinicRows(clinicId, includeDeleted, filters) ==
  LET kept == {id \in DOMAIN thoughts :
                 /\ MemPassesFilters(thoughts[id], clinicId, includeDeleted, filters)
                 /\ thoughts[id].authorId \in DOMAIN users}
      ids == MemSortedIds(kept, currentThoughtId - 1)
  IN [i \in 1..Len(ids) |-> WithAuthor(ids[i])]

MemGetThoughtsByClinic(clinicId, includeDeleted, filters) ==
  /\ backend = "mem"
  /\ ret' = Returned("getThoughtsByClinic", "value")
  /\ rows' = MemThoughtsByClinicRows(clinicId, includeDeleted, filters)
  /\ UNCHANGED <<backend, store, now>>

\* the WHERE conditions of PostgreSQLStorage.getThoughtsByClinic
PgConditions(thought, clinicId, includeDeleted, filters) ==
  /\ thought.clinicId = clinicId
  /\ ~includeDeleted => thought.isDeleted = FALSE
  /\ filters.userId # NoId => thought.authorId = filters.userId
  /\ ~Falsy(filters.department) => thought.department = filters.department
  /\ filters.includeRead = "false" => thought.isRead = FALSE

\* what PostgreSQLStorage.getThoughtsByClinic can return: the joined rows
\* in every order that ORDER BY created_at DESC allows
PgThoughtsByClinicRows(clinicId, includeDeleted, filters) ==
  LET kept == {id \in DOMAIN thoughts :
                 /\ thoughts[id].authorId \in DOMAIN users
                 /\ PgConditions(thoughts[id], clinicId, includeDeleted, filters)}
      n == Cardinality(kept)
      orders == {q \in [1..n -> kept] :
                   /\ \A i, j \in 1..n : i # j => q[i] # q[j]
                   /\ \A i, j \in 1..n :
                        i < j => thoughts[q[i]].createdAt >= thoughts[q[j]].createdAt}
  IN {[i \in 1..n |-> WithAuthor(q[i])] : q \in orders}

PgGetThoughtsByClinic(clinicId, includeDeleted, filters) ==
  /\ backend = "pg"
  /\ \E result \in PgThoughtsByClinicRows(clinicId, includeDeleted, filters) :
       ret' = Returned("getThoughtsByClinic", "value") /\ rows' = result
  /\ UNCHANGED <<backend, store, now>>

\* MemStorage.getUnreadThoughtsCount: the length of the filtered values
MemUnreadThoughtsCount(clinicId) ==
  Cardinality({id \in DOMAIN thoughts :
                 /\ thoughts[id].clinicId = clinicId
                 /\ ~thoughts[id].isDeleted
                 /\ ~thoughts[id].isRead})

MemGetUnreadThoughtsCount(clinicId) ==
  /\ backend = "mem"
  /\ ret' = Returned("getUnreadThoughtsCount", "value")
  /\ rows' = <<MemUnreadThoughtsCount(clinicId)>>
  /\ UNCHANGED <<backend, store, now>>

\* PostgreSQLStorage.getUnreadThoughtsCount: the length of SELECT ... FROM
\* thoughts WHERE clinic_id = clinicId AND NOT is_read AND NOT is_deleted
PgUnreadThoughtsCount(clinicId) ==
  Cardinality({id \in DOMAIN thoughts :
                 /\ thoughts[id].clinicId = clinicId
                 /\ thoughts[id].isRead = FALSE
                 /\ thoughts[id].isDeleted = FALSE})

PgGetUnreadThoughtsCount(clinicId) ==
  /\ backend = "pg"
  /\ ret' = Returned("getUnreadThoughtsCount", "value")
  /\ rows' = <<PgUnreadThoughtsCount(clinicId)>>
  /\ UNCHANGED <<backend, store, now>>

----------------------------------------------------------------------------
(* The gateway as its callers use it.  Each group of operations takes the   *)
(* sets its arguments are drawn from.                                        *)

Roles == {"admin", "user"}

CreateUserOps(roles, clinicIds) ==
  \E role \in roles, clinicId \in clinicIds :
    \/ MemCreateUser(role, clinicId) /\ UNCHANGED requests
    \/ PgCreateUser(role, clinicId) /\ UNCHANGED requests

DeleteUserOps ==
  \E id \in UserIds :
    \/ MemDeleteUser(id) /\ UNCHANGED requests
    \/ PgDeleteUser(id) /\ UNCHANGED requests

CreateClinicOps(lists) ==
  \E departments \in lists :
    \/ MemCreateClinic(departments) /\ UNCHANGED requests
    \/ PgCreateClinic(departments) /\ UNCHANGED requests

UpdateClinicOps(lists) ==
  \E id \in ClinicIds, departments \in lists :
    \/ MemUpdateClinic(id, [departments |-> departments]) /\ UNCHANGED requests
    \/ PgUpdateClinic(id, [departments |-> departments]) /\ UNCHANGED requests

DeleteClinicOps ==
  \E id \in ClinicIds :
    \/ MemDeleteClinic(id) /\ UNCHANGED requests
    \/ PgDeleteClinic(id) /\ UNCHANGED requests

\* a clinic id that no clinic ever has
UnknownClinic == MaxClinics + 1

DepartmentOps(clinicIds, names) ==
  \/ \E clinicId \in clinicIds, department \in names :
       \/ MemAddDepartmentToClinic(clinicId, department) /\ UNCHANGED requests
       \/ PgAddDepartmentToClinic(clinicId, department) /\ UNCHANGED requests
       \/ MemRemoveDepartmentFromClinic(clinicId, department) /\ UNCHANGED requests
       \/ PgRemoveDepartmentFromClinic(clinicId, department) /\ UNCHANGED requests
  \/ \E clinicId \in clinicIds, oldDepartment \in names, newDepartment \in names :
       \/ /\ MemUpdateDepartmentInClinic(clinicId, oldDepartment, newDepartment)
          /\ UNCHANGED requests
       \/ /\ PgUpdateDepartmentInClinic(clinicId, oldDepartment, newDepartment)
          /\ UNCHANGED requests

\* POST /api/thoughts passes the author as the acting user
CreateThoughtOps(insertThoughts) ==
  \E insertThought \in insertThoughts :
    \/ MemCreateThought(insertThought, insertThought.authorId) /\ UNCHANGED requests
    \/ PgCreateThought(insertThought, insertThought.authorId) /\ UNCHANGED requests

ThoughtOps(updates) ==
  \/ \E id \in ThoughtIds, upd \in updates, userId \in UserIds :
       \/ MemUpdateThought(id, upd, userId) /\ UNCHANGED requests
       \/ PgUpdateThought(id, upd, userId) /\ UNCHANGED requests
  \/ \E id \in ThoughtIds, userId \in UserIds :
       \/ MemDeleteThought(id, userId) /\ UNCHANGED requests
       \/ PgDeleteThought(id, userId) /\ UNCHANGED requests
  \/ \E id \in ThoughtIds :
       \/ MemMarkThoughtAsRead(id) /\ UNCHANGED requests
       \/ PgMarkThoughtAsRead(id) /\ UNCHANGED requests

HistoryQueries ==
  \E id \in ThoughtIds :
    \/ MemGetThoughtHistory(id) /\ UNCHANGED requests
    \/ PgGetThoughtHistory(id) /\ UNCHANGED requests

\* GET /api/thoughts: administrators see deleted thoughts, users do not
ThoughtQueries(clinicIds, filterSet) ==
  \E clinicId \in clinicIds, includeDeleted \in BOOLEAN, filters \in filterSet :
    \/ MemGetThoughtsByClinic(clinicId, includeDeleted, filters) /\ UNCHANGED requests
    \/ PgGetThoughtsByClinic(clinicId, includeDeleted, filters) /\ UNCHANGED requests

UnreadCountQueries(clinicIds) ==
  \E clinicId \in clinicIds :
    \/ MemGetUnreadThoughtsCount(clinicId) /\ UNCHANGED requests
    \/ PgGetUnreadThoughtsCount(clinicId) /\ UNCHANGED requests

\* setupFirstAdmin called with any user and clinic data
SetupFirstAdminOps(roles, lists) ==
  \E role \in roles, departments \in lists :
    \/ /\ currentUserId <= MaxUsers /\ currentClinicId <= MaxClinics
       /\ MemSetupFirstAdmin(role, departments) /\ UNCHANGED requests
    \/ /\ currentUserId <= MaxUsers /\ currentClinicId <= MaxClinics
       /\ PgSetupFirstAdmin(role, departments) /\ UNCHANGED requests

\* the data POST /api/system/setup hands to setupFirstAdmin
SetupRole == "admin"

SetupDepartments == <<General, Administration>>

\* POST /api/system/setup, up to the answer of hasAnyUsers: the request is
\* rejected with "System already set up" or goes on
SetupHasAnyUsers(r) ==
  /\ requests[r].pc = "start"
  /\ LET hasUsers == IF backend = "mem" THEN MemHasAnyUsers ELSE PgHasAnyUsers
     IN /\ requests' = [requests EXCEPT
                          ![r].pc = IF hasUsers THEN "rejected" ELSE "checked"]
        /\ ret' = Returned("hasAnyUsers", Bool(hasUsers)) /\ rows' = <<>>
  /\ UNCHANGED <<backend, store, now>>

\* POST /api/system/setup after bcrypt.hash: MemStorage.setupFirstAdmin
\* runs without yielding
SetupRunMem(r) ==
  /\ requests[r].pc = "checked"
  /\ MemSetupFirstAdmin(SetupRole, SetupDepartments)
  /\ requests' = [requests EXCEPT ![r] = [pc |-> "done", clinicId |-> currentClinicId]]

\* POST /api/system/setup after bcrypt.hash: the first statement of
\* PostgreSQLStorage.setupFirstAdmin
SetupInsertClinicPg(r) ==
  /\ requests[r].pc = "checked"
  /\ PgSetupInsertClinic(SetupDepartments)
  /\ requests' = [requests EXCEPT ![r] = [pc |-> "clinic", clinicId |-> currentClinicId]]

\* the second statement, and the response
SetupInsertUserPg(r) ==
  /\ requests[r].pc = "clinic"
  /\ PgSetupInsertUser(SetupRole, requests[r].clinicId)
  /\ requests' = [requests EXCEPT ![r].pc = "done"]

SetupRequests ==
  \E r \in Requests :
    \/ SetupHasAnyUsers(r)
    \/ SetupRunMem(r)
    \/ SetupInsertClinicPg(r)
    \/ SetupInsertUserPg(r)

----------------------------------------------------------------------------
(* Spec: the life of thoughts under every state-changing operation; the   *)
(* department operations act on clinic 1 with two plain names             *)

InsertThoughts ==
  [clinicId : ClinicIds, authorId : UserIds, title : {"t1"}, content : {"c1"},
   category : {"undefined"}, department : {nA}]

Next ==
  \/ CreateUserOps({"user"}, {NoId})
  \/ DeleteUserOps
  \/ CreateClinicOps({<<nA, nB>>})
  \/ DeleteClinicOps
  \/ DepartmentOps({1}, {nA, nB})
  \/ CreateThoughtOps(InsertThoughts)
  \/ ThoughtOps(ThoughtUpdates)

Spec == Init /\ [][Next]_vars

----------------------------------------------------------------------------
(* SpecDept: the department operations on clinic 1 and on an unknown      *)
(* clinic, with untrimmed and mixed-case names, beside the thoughts of    *)
(* two clinics                                                             *)

DeptInsertThoughts ==
  [clinicId : ClinicIds, authorId : {1}, title : {"t1"}, content : {"c1"},
   category : {"idea"}, department : {nA, nB}]

NextDept ==
  \/ CreateUserOps({"admin"}, {NoId})
  \/ CreateClinicOps(DeptLists)
  \/ DepartmentOps({1, UnknownClinic}, Names)
  \/ CreateThoughtOps(DeptInsertThoughts)

SpecDept == Init /\ [][NextDept]_vars

----------------------------------------------------------------------------
(* SpecHistory: getThoughtHistory applied to stores holding one thought,  *)
(* filed with or without history rows.  A thought without rows is one     *)
(* stored before history was tracked, or imported beside the gateway; the *)
(* PostgreSQL database outlives the process.                               *)

\* the thought stores the query is applied to
HistoryThoughts ==
  [clinicId : {1}, title : Titles, content : Contents, category : {"idea"},
   department : {nA, Null}, authorId : {1}, isDeleted : {FALSE},
   deletedAt : {NoTime}, deletedBy : {NoId}, editCount : {0, 1},
   lastEditedAt : {NoTime, 0}, lastEditedBy : {NoId, 1}, isRead : {FALSE},
   readAt : {NoTime}, createdAt : {0}]

\* the history rows a thought edited editCount times has, or none at all
HistoryOf(thought) ==
  LET created == [id |-> 1, thoughtId |-> 1, title |-> "t1", content |-> "c1",
                  category |-> "idea", department |-> nA, editedBy |-> 1,
                  editedAt |-> 0, changeType |-> "created"]
      edited == [id |-> 2, thoughtId |-> 1, title |-> thought.title,
                 content |-> thought.content, category |-> thought.category,
                 department |-> thought.department, editedBy |-> 1,
                 editedAt |-> 0, changeType |-> "edited"]
  IN IF thought.editCount = 0 THEN {<<>>, <<created>>} ELSE {<<>>, <<created, edited>>}

InitHistory ==
  /\ backend \in {"mem", "pg"}
  /\ users \in {[u \in {1} |-> [role |-> role, clinicId |-> 1]] : role \in Roles}
  /\ clinics = [c \in {1} |-> [departments |-> <<nA, nB>>]]
  /\ \E thought \in HistoryThoughts :
       /\ (thought.editCount = 0) = (thought.lastEditedBy = NoId)
       /\ (thought.editCount = 0) = (thought.lastEditedAt = NoTime)
       /\ thoughts = [t \in {1} |-> thought]
       /\ thoughtHistory \in HistoryOf(thought)
  /\ currentUserId = 2
  /\ currentClinicId = 2
  /\ currentThoughtId = 2
  /\ currentHistoryId = Len(thoughtHistory) + 1
  /\ now \in 0..MaxTime
  /\ ret = Returned("none", "none")
  /\ rows = <<>>
  /\ requests = [r \in Requests |-> NewRequest]

NextHistory == HistoryQueries

SpecHistory == InitHistory /\ [][NextHistory]_vars

----------------------------------------------------------------------------
(* SpecUsers: users and clinics are deleted while thoughts and history     *)
(* rows refer to them, and the history of the thoughts is read             *)

UserInsertThoughts ==
  [clinicId : {1}, authorId : UserIds, title : {"t1"}, content : {"c1"},
   category : {"idea"}, department : {nA}]

NextUsers ==
  \/ CreateUserOps({"user"}, {NoId, 1})
  \/ DeleteUserOps
  \/ CreateClinicOps({<<nA>>})
  \/ DeleteClinicOps
  \/ CreateThoughtOps(UserInsertThoughts)
  \/ ThoughtOps({[title |-> "t2"]})
  \/ HistoryQueries

SpecUsers == Init /\ [][NextUsers]_vars

----------------------------------------------------------------------------
(* SpecRead: thoughts are created, edited, deleted and marked as read     *)
(* while the clock advances, and the thoughts of the clinics are queried   *)

ReadInsertThoughts ==
  [clinicId : {1}, authorId : UserIds, title : {"t1"}, content : {"c1"},
   category : {"idea"}, department : {nA}]

\* the filters parsed from the query string
NoFilters ==
  [startDate |-> NoDate, endDate |-> NoDate, userId |-> NoId,
   department |-> Null, includeRead |-> "undefined"]

\* none, each filter alone, both dates, and all of them at once
ReadFilters ==
  {NoFilters,
   [NoFilters EXCEPT !.startDate = 1],
   [NoFilters EXCEPT !.endDate = 0],
   [NoFilters EXCEPT !.startDate = 0, !.endDate = 0],
   [NoFilters EXCEPT !.userId = 1],
   [NoFilters EXCEPT !.department = nA],
   [NoFilters EXCEPT !.includeRead = "false"],
   [startDate |-> 0, endDate |-> 1, userId |-> 1, department |-> nB,
    includeRead |-> "false"]}

NextRead ==
  \/ Tick
  \/ CreateUserOps({"user"}, {NoId})
  \/ DeleteUserOps
  \/ CreateClinicOps({<<nA>>})
  \/ CreateThoughtOps(ReadInsertThoughts)
  \/ ThoughtOps({[department |-> nB]})
  \/ ThoughtQueries({1}, ReadFilters)
  \/ UnreadCountQueries({1})

SpecRead == Init /\ [][NextRead]_vars

----------------------------------------------------------------------------
(* SpecSetup: clinics are made and edited by setupFirstAdmin, createClinic, *)
(* updateClinic and the department operations, called one at a time with  *)
(* any data their types allow                                               *)

\* roles an InsertUser can carry ("undefined": none)
SetupRoles == Roles \cup {"undefined"}

\* departments an InsertClinic can carry (NullList: none)
ClinicLists == {NullList, <<>>, <<nA>>, <<nA, nB>>}

NextSetup ==
  \/ SetupFirstAdminOps(SetupRoles, ClinicLists)
  \/ CreateClinicOps(ClinicLists)
  \/ UpdateClinicOps(ClinicLists \ {NullList})
  \/ DepartmentOps(ClinicIds, {nA, nB})

SpecSetup == Init /\ [][NextSetup]_vars

----------------------------------------------------------------------------
(* SpecSetupRoute: POST /api/system/setup requests running concurrently;  *)
(* a request yields at each await                                           *)

NextSetupRoute == SetupRequests

SpecSetupRoute == Init /\ [][NextSetupRoute]_vars

----------------------------------------------------------------------------
(* The routes behind requireAuth.  A request yields at each await of the   *)
(* middleware and of its handler, and the steps of other requests may run  *)
(* in between.  (The promises of MemStorage are resolved when they are     *)
(* awaited, so that the steps of one request follow each other at once     *)
(* there: one of the interleavings below.)                                 *)

\* req.user before requireAuth has run
NoUser == [id |-> NoId, role |-> "none", clinicId |-> NoId]

\* a request as express hands it to the middleware: the user id of its
\* session, req.params.id and the body or query
Arrived(route, userId, id, body) ==
  [pc |-> "arrived", route |-> route, userId |-> userId, id |-> id,
   body |-> body, user |-> NoUser, authorId |-> NoId, status |-> 0]

\* res.status(status).json(...)
Respond(r, status) ==
  requests' = [requests EXCEPT ![r].pc = "done", ![r].status = status]

\* requireAuth: 401 without a session user or when storage.getUser finds
\* none; otherwise req.user is the id, role and clinicId read
RequireAuth(r) ==
  /\ requests[r].pc = "arrived"
  /\ LET userId == requests[r].userId
     IN IF userId = NoId \/ userId \notin DOMAIN users
        THEN Respond(r, 401)
        ELSE requests' = [requests EXCEPT
                            ![r].pc = "authed",
                            ![r].user = [id |-> userId,
                                         role |-> users[userId].role,
                                         clinicId |-> users[userId].clinicId]]
  /\ UNCHANGED <<backend, store, now, ret, rows>>

PutThought == "PUT /api/thoughts/:id"

DeleteThought == "DELETE /api/thoughts/:id"

\* the columns insertThoughtSchema keeps
InsertThoughtKeys ==
  {"title", "content", "category", "department", "authorId", "clinicId",
   "isRead", "readAt"}

\* insertThoughtSchema.partial().parse(body): the known keys of the body
PartialInsertThought(body) ==
  [f \in DOMAIN body \cap InsertThoughtKeys |-> body[f]]

PutThoughtArrives(r, userIds, ids, bodies) ==
  /\ requests[r].pc = "start"
  /\ \E userId \in userIds, id \in ids, body \in bodies :
       requests' = [requests EXCEPT ![r] = Arrived(PutThought, userId, id, body)]
  /\ UNCHANGED <<backend, store, now, ret, rows>>

DeleteThoughtArrives(r, userIds, ids) ==
  /\ requests[r].pc = "start"
  /\ \E userId \in userIds, id \in ids :
       requests' = [requests EXCEPT
                      ![r] = Arrived(DeleteThought, userId, id, EmptyMap)]
  /\ UNCHANGED <<backend, store, now, ret, rows>>

\* both handlers: const thought = await storage.getThought(id), 404 if
\* there is none
ThoughtRouteGetThought(r) ==
  /\ requests[r].pc = "authed"
  /\ requests[r].route \in {PutThought, DeleteThought}
  /\ LET id == requests[r].id
     IN IF id \notin DOMAIN thoughts
        THEN /\ Respond(r, 404)
             /\ ret' = Returned("getThought", "undefined")
        ELSE /\ requests' = [requests EXCEPT
                               ![r].pc = "read",
                               ![r].authorId = thoughts[id].authorId]
             /\ ret' = Returned("getThought", "value")
  /\ rows' = <<>>
  /\ UNCHANGED <<backend, store, now>>

\* thought.authorId !== req.user!.id && req.user!.role !== "admin"
NotAllowed(request) ==
  request.authorId # request.user.id /\ request.user.role # "admin"

\* the status after the gateway call: 200, 404 for undefined / false, and
\* the status of the handler's catch block when the call threw
StatusOf(value, caught) ==
  CASE value \in {"value", "true"} -> 200
    [] value \in {"undefined", "false"} -> 404
    [] OTHER -> caught

\* a PUT handler that calls the gateway without the check
PutThoughtUpdate_NoCheck(r) ==
  /\ requests[r].pc = "read"
  /\ requests[r].route = PutThought
  /\ LET request == requests[r]
         updates == PartialInsertThought(request.body)
     IN /\ \/ MemUpdateThought(request.id, updates, request.user.id)
           \/ PgUpdateThought(request.id, updates, request.user.id)
        /\ requests' = [requests EXCEPT ![r].pc = "done",
                                        ![r].status = StatusOf(ret'.value, 400)]

\* PUT /api/thoughts/:id after getThought: 403, or parse the body and call
\* updateThought
PutThoughtUpdate(r) ==
  /\ requests[r].pc = "read"
  /\ requests[r].route = PutThought
  /\ LET request == requests[r]
         updates == PartialInsertThought(request.body)
     IN IF NotAllowed(request)
        THEN /\ Respond(r, 403)
             /\ UNCHANGED <<backend, store, now, ret, rows>>
        ELSE /\ \/ MemUpdateThought(request.id, updates, request.user.id)
                \/ PgUpdateThought(request.id, updates, request.user.id)
             /\ requests' = [requests EXCEPT ![r].pc = "done",
                                             ![r].status = StatusOf(ret'.value, 400)]

\* DELETE /api/thoughts/:id after getThought: 403, or call deleteThought
DeleteThoughtDelete(r) ==
  /\ requests[r].pc = "read"
  /\ requests[r].route = DeleteThought
  /\ LET request == requests[r]
     IN IF NotAllowed(request)
        THEN /\ Respond(r, 403)
             /\ UNCHANGED <<backend, store, now, ret, rows>>
        ELSE /\ \/ MemDeleteThought(request.id, request.user.id)
                \/ PgDeleteThought(request.id, request.user.id)
             /\ requests' = [requests EXCEPT ![r].pc = "done",
                                             ![r].status = StatusOf(ret'.value, 500)]

GetThoughts == "GET /api/thoughts"

\* req.query of GET /api/thoughts: clinicId (NoId when absent) and the
\* filters
GetThoughtsArrives(r, userIds, clinicIds, filterSet) ==
  /\ requests[r].pc = "start"
  /\ \E userId \in userIds, clinicId \in clinicIds, filters \in filterSet :
       requests' = [requests EXCEPT
                      ![r] = Arrived(GetThoughts, userId, NoId,
                                     [clinicId |-> clinicId, filters |-> filters])]
  /\ UNCHANGED <<backend, store, now, ret, rows>>

\* req.query.clinicId ? parseInt(req.query.clinicId) : req.user!.clinicId
QueriedClinic(request) ==
  IF request.body.clinicId # NoId THEN request.body.clinicId
  ELSE request.user.clinicId

\* a handler that lets everyone see deleted thoughts
GetThoughtsList_IncludeDeleted(r) ==
  /\ requests[r].pc = "authed"
  /\ requests[r].route = GetThoughts
  /\ LET request == requests[r]
         clinicId == QueriedClinic(request)
     IN IF clinicId = NoId
        THEN /\ Respond(r, 400)
             /\ UNCHANGED <<backend, store, now, ret, rows>>
        ELSE IF request.user.role # "admin" /\ clinicId # request.user.clinicId
        THEN /\ Respond(r, 403)
             /\ UNCHANGED <<backend, store, now, ret, rows>>
        ELSE /\ \/ MemGetThoughtsByClinic(clinicId, TRUE, request.body.filters)
                \/ PgGetThoughtsByClinic(clinicId, TRUE, request.body.filters)
             /\ Respond(r, 200)

\* GET /api/thoughts after requireAuth: 400 without a clinic, 403 for a
\* user asking for another clinic, otherwise the thoughts of the clinic,
\* deleted ones included for an admin
GetThoughtsList(r) ==
  /\ requests[r].pc = "authed"
  /\ requests[r].route = GetThoughts
  /\ LET request == requests[r]
         clinicId == QueriedClinic(request)
         includeDeleted == request.user.role = "admin"
     IN IF clinicId = NoId
        THEN /\ Respond(r, 400)
             /\ UNCHANGED <<backend, store, now, ret, rows>>
        ELSE IF request.user.role # "admin" /\ clinicId # request.user.clinicId
        THEN /\ Respond(r, 403)
             /\ UNCHANGED <<backend, store, now, ret, rows>>
        ELSE /\ \/ MemGetThoughtsByClinic(clinicId, includeDeleted,
                                          request.body.filters)
                \/ PgGetThoughtsByClinic(clinicId, includeDeleted,
                                         request.body.filters)
             /\ Respond(r, 200)

DeleteUser == "DELETE /api/users/:id"

DeleteUserArrives(r, userIds, ids) ==
  /\ requests[r].pc = "start"
  /\ \E userId \in userIds, id \in ids :
       requests' = [requests EXCEPT ![r] = Arrived(DeleteUser, userId, id, EmptyMap)]
  /\ UNCHANGED <<backend, store, now, ret, rows>>

\* DELETE /api/users/:id after requireAuth: requireAdmin answers 403, the
\* handler 400 for the requester's own id, otherwise deleteUser runs
DeleteUserDelete(r) ==
  /\ requests[r].pc = "authed"
  /\ requests[r].route = DeleteUser
  /\ LET request == requests[r]
     IN IF request.user.role # "admin"
        THEN /\ Respond(r, 403)
             /\ UNCHANGED <<backend, store, now, ret, rows>>
        ELSE IF request.id = request.user.id
        THEN /\ Respond(r, 400)
             /\ UNCHANGED <<backend, store, now, ret, rows>>
        ELSE /\ \/ MemDeleteUser(request.id)
                \/ PgDeleteUser(request.id)
             /\ requests' = [requests EXCEPT ![r].pc = "done",
                                             ![r].status = StatusOf(ret'.value, 500)]

\* the store once setup has run and the admin has added clinics and users
RouteStore(storedUsers, storedClinics) ==
  /\ backend \in {"mem", "pg"}
  /\ users = storedUsers
  /\ clinics = storedClinics
  /\ thoughts = EmptyMap
  /\ thoughtHistory = <<>>
  /\ currentUserId = MaxRouteUsers + 1
  /\ currentClinicId = MaxClinics + 1
  /\ currentThoughtId = 1
  /\ currentHistoryId = 1
  /\ now = 0
  /\ ret = Returned("none", "none")
  /\ rows = <<>>
  /\ requests = [r \in Requests |-> NewRequest]

RouteUserIds == 1..MaxRouteUsers

RouteRequests == 1..MaxRouteRequests

\* the admin of setup and two users, one in each clinic
RouteUsers ==
  [userId \in RouteUserIds |->
     [role |-> IF userId = 1 THEN "admin" ELSE "user",
      clinicId |-> IF userId = MaxRouteUsers THEN MaxClinics ELSE 1]]

RouteClinics == [clinicId \in ClinicIds |-> [departments |-> <<nA, nB>>]]

----------------------------------------------------------------------------
(* The calls of PostgreSQLStorage that read a row and write it back in a   *)
(* later statement, one step per statement                                  *)

\* a call of a department operation: add(a), update(a, b) or remove(a)
DeptCall(op, a, b) == [op |-> op, a |-> a, b |-> b]

\* what a department operation makes of the list it has read: whether it
\* goes on to updateClinic, and the list it hands over
DeptOutcome(call, currentDepts) ==
  CASE call.op = "add" ->
         [ok |-> ExactMatches(currentDepts, call.a) = {},
          updatedDepts |-> Append(currentDepts, call.a)]
    [] call.op = "update" ->
         LET index == FirstIndex(ExactMatches(currentDepts, call.a))
         IN [ok |-> ~(index = 0 \/ ExactMatches(currentDepts, call.b) # {}),
             updatedDepts |-> IF index = 0 THEN currentDepts
                              ELSE [currentDepts EXCEPT ![index] = call.b]]
    [] OTHER ->
         [ok |-> PgRemoveAllowed(currentDepts, call.a),
          updatedDepts |-> PgUpdatedDepts(currentDepts, call.a)]

\* a department operation is called on clinic clinicId
DeptCallStarts(r, clinicId, calls) ==
  /\ requests[r].pc = "start"
  /\ \E call \in calls :
       requests' = [requests EXCEPT
                      ![r] = [pc |-> "called", clinicId |-> clinicId,
                              call |-> call, updatedDepts |-> <<>>,
                              value |-> "pending"]]
  /\ UNCHANGED <<backend, store, now, ret, rows>>

\* const clinic = await this.getClinic(clinicId) and the checks on the
\* list read: the call returns false or goes on with updatedDepts
DeptCallReads(r) ==
  /\ backend = "pg"
  /\ requests[r].pc = "called"
  /\ LET clinicId == requests[r].clinicId
         currentDepts == IF clinicId \in DOMAIN clinics
                         THEN OrEmpty(clinics[clinicId].departments) ELSE <<>>
         outcome == DeptOutcome(requests[r].call, currentDepts)
     IN IF clinicId \in DOMAIN clinics /\ outcome.ok
        THEN requests' = [requests EXCEPT
                            ![r].pc = "read",
                            ![r].updatedDepts = outcome.updatedDepts]
        ELSE requests' = [requests EXCEPT ![r].pc = "done", ![r].value = "false"]
  /\ ret' = Returned("getClinic", (IF requests[r].clinicId \in DOMAIN clinics
                                   THEN "value" ELSE "undefined"))
  /\ rows' = <<>>
  /\ UNCHANGED <<backend, store, now>>

\* const result = await this.updateClinic(clinicId, { departments:
\* updatedDepts }); return !!result
DeptCallWrites(r) ==
  /\ requests[r].pc = "read"
  /\ Len(requests[r].updatedDepts) <= MaxDepts
  /\ PgUpdateClinic(requests[r].clinicId,
                    [departments |-> requests[r].updatedDepts])
  /\ requests' = [requests EXCEPT
                    ![r].pc = "done",
                    ![r].value = Bool(requests[r].clinicId \in DOMAIN clinics)]

\* updateThought(id, updates, userId) is called
UpdateCallStarts(r, ids, updates, userIds) ==
  /\ requests[r].pc = "start"
  /\ \E id \in ids, upd \in updates, userId \in userIds :
       requests' = [requests EXCEPT
                      ![r] = [pc |-> "called", id |-> id, updates |-> upd,
                              userId |-> userId, editCount |-> 0,
                              updatedThought |-> EmptyMap, value |-> "pending"]]
  /\ UNCHANGED <<backend, store, now, ret, rows>>

\* const thought = await this.getThought(id); if (!thought) return
\* undefined
UpdateCallReads(r) ==
  /\ backend = "pg"
  /\ requests[r].pc = "called"
  /\ LET id == requests[r].id
     IN IF id \notin DOMAIN thoughts
        THEN /\ requests' = [requests EXCEPT ![r].pc = "done",
                                             ![r].value = "undefined"]
             /\ ret' = Returned("getThought", "undefined")
        ELSE /\ requests' = [requests EXCEPT
                               ![r].pc = "read",
                               ![r].editCount = thoughts[id].editCount]
             /\ ret' = Returned("getThought", "value")
  /\ rows' = <<>>
  /\ UNCHANGED <<backend, store, now>>

\* UPDATE thoughts SET ...updates, edit_count = (thought.editCount || 0) +
\* 1, ... WHERE id = id RETURNING *: the columns named are set on the row
\* as it is now
UpdateCallWrites(r) ==
  /\ requests[r].pc = "read"
  /\ LET id == requests[r].id
         updatedThought ==
           [Merge(thoughts[id], requests[r].updates) EXCEPT
              !.editCount = requests[r].editCount + 1,
              !.lastEditedAt = now,
              !.lastEditedBy = requests[r].userId]
     IN IF ~ThoughtRefsOk(updatedThought)
        THEN /\ requests' = [requests EXCEPT ![r].pc = "done", ![r].value = "threw"]
             /\ UNCHANGED thoughts
        ELSE /\ thoughts' = [thoughts EXCEPT ![id] = updatedThought]
             /\ requests' = [requests EXCEPT
                               ![r].pc = "written",
                               ![r].updatedThought = updatedThought]
  /\ ret' = Returned("updateThought", "pending") /\ rows' = <<>>
  /\ UNCHANGED <<backend, users, clinics, thoughtHistory, currentUserId,
                 currentClinicId, currentThoughtId, currentHistoryId, now>>

\* INSERT INTO thought_history from the row returned; return
\* updatedThought
UpdateCallInserts(r) ==
  /\ requests[r].pc = "written"
  /\ Len(thoughtHistory) < MaxHistory
  /\ thoughtHistory' = PgInsertHistory(requests[r].id, requests[r].updatedThought,
                                       requests[r].userId, "edited")
  /\ currentHistoryId' = currentHistoryId + 1
  /\ requests' = [requests EXCEPT ![r].pc = "done", ![r].value = "value"]
  /\ ret' = Returned("updateThought", "value") /\ rows' = <<>>
  /\ UNCHANGED <<backend, users, clinics, thoughts, currentUserId,
                 currentClinicId, currentThoughtId, now>>

----------------------------------------------------------------------------
(* SpecUpdateRace: updateThought of PostgreSQLStorage called concurrently  *)
(* on the thought of user 2                                                 *)

\* the thought user 2 files in clinic 1
RaceInsertThought ==
  [clinicId |-> 1, authorId |-> 2, title |-> "t1", content |-> "c1",
   category |-> "idea", department |-> nA]

InitUpdateRace == RouteStore(RouteUsers, RouteClinics) /\ backend = "pg"

NextUpdateRace ==
  \/ PgCreateThought(RaceInsertThought, RaceInsertThought.authorId)
       /\ UNCHANGED requests
  \/ \E r \in RouteRequests :
       \/ UpdateCallStarts(r, {1}, ThoughtUpdates, {1, 2})
       \/ UpdateCallReads(r)
       \/ UpdateCallWrites(r)
       \/ UpdateCallInserts(r)

SpecUpdateRace == InitUpdateRace /\ [][NextUpdateRace]_vars

----------------------------------------------------------------------------
(* SpecDeptRace: department operations of PostgreSQLStorage called         *)
(* concurrently on clinic 1, whose list is <<"A", "B">> at first           *)

DeptRaceCalls ==
  {DeptCall("add", na, Null), DeptCall("add", nPadA, Null),
   DeptCall("update", nA, na), DeptCall("remove", nB, Null)}

InitDeptRace == RouteStore(RouteUsers, RouteClinics) /\ backend = "pg"

NextDeptRace ==
  \E r \in RouteRequests :
    \/ DeptCallStarts(r, 1, DeptRaceCalls)
    \/ DeptCallReads(r)
    \/ DeptCallWrites(r)

SpecDeptRace == InitDeptRace /\ [][NextDeptRace]_vars

----------------------------------------------------------------------------
(* SpecThoughtRoutes: thoughts of user 2 are edited and deleted through    *)
(* PUT and DELETE /api/thoughts/:id by their author, by another user and   *)
(* by the admin                                                             *)

RouteInsertThoughts ==
  [clinicId : {1}, authorId : {2}, title : {"t1"}, content : {"c1"},
   category : {"idea"}, department : {nA}]

\* request bodies: a title, another clinic, another author, the read flag,
\* and a body with a column the schema omits
PutBodies ==
  {[title |-> "t2"], [clinicId |-> MaxClinics], [authorId |-> MaxRouteUsers],
   [isRead |-> TRUE], [title |-> "t2", isDeleted |-> FALSE]}

InitThoughtRoutes == RouteStore(RouteUsers, RouteClinics)

NextThoughtRoutes ==
  \/ CreateThoughtOps(RouteInsertThoughts)
  \/ \E r \in RouteRequests :
       \/ PutThoughtArrives(r, RouteUserIds \cup {NoId}, {1}, PutBodies)
       \/ DeleteThoughtArrives(r, RouteUserIds \cup {NoId}, {1})
       \/ RequireAuth(r)
       \/ ThoughtRouteGetThought(r)
       \/ PutThoughtUpdate(r)
       \/ DeleteThoughtDelete(r)

SpecThoughtRoutes == InitThoughtRoutes /\ [][NextThoughtRoutes]_vars

----------------------------------------------------------------------------
(* SpecListRoute: the admin, a user of clinic 1 and a user of the other    *)
(* clinic ask GET /api/thoughts for their own clinic and for other clinics *)
(* while thoughts are written and deleted                                   *)

\* POST /api/thoughts files a thought in the clinic of its author
ListInsertThoughts ==
  {[clinicId |-> RouteUsers[userId].clinicId, authorId |-> userId,
    title |-> "t1", content |-> "c1", category |-> "idea", department |-> nA] :
     userId \in {2, MaxRouteUsers}}

\* no filter, or the thoughts of the user of the other clinic
ListFilters == {NoFilters, [NoFilters EXCEPT !.userId = MaxRouteUsers]}

InitListRoute == RouteStore(RouteUsers, RouteClinics)

NextListRoute ==
  \/ CreateThoughtOps(ListInsertThoughts)
  \/ \E id \in ThoughtIds :
       \/ MemDeleteThought(id, 1) /\ UNCHANGED requests
       \/ PgDeleteThought(id, 1) /\ UNCHANGED requests
  \/ \E r \in RouteRequests :
       \/ GetThoughtsArrives(r, RouteUserIds, ClinicIds \cup {NoId}, ListFilters)
       \/ RequireAuth(r)
       \/ GetThoughtsList(r)

SpecListRoute == InitListRoute /\ [][NextListRoute]_vars

----------------------------------------------------------------------------
(* SpecUserRoute: DELETE /api/users/:id requests of two admins and of a    *)
(* session whose user is gone, running concurrently on the exported        *)
(* storage, PostgreSQLStorage, where every gateway call is a round trip to *)
(* the database                                                             *)

\* the admin of setup and a second admin added through POST /api/users;
\* the users with higher ids have been deleted
AdminUsers ==
  [userId \in {1, 2} |-> [role |-> "admin", clinicId |-> 1]]

\* a thought filed by the second admin
UserRouteInsertThought ==
  [clinicId |-> 1, authorId |-> 2, title |-> "t1", content |-> "c1",
   category |-> "idea", department |-> nA]

InitUserRoute == RouteStore(AdminUsers, RouteClinics) /\ backend = "pg"

NextUserRoute ==
  \/ PgCreateThought(UserRouteInsertThought, UserRouteInsertThought.authorId)
       /\ UNCHANGED requests
  \/ \E r \in RouteRequests :
       \/ DeleteUserArrives(r, RouteUserIds, RouteUserIds)
       \/ RequireAuth(r)
       \/ DeleteUserDelete(r)

SpecUserRoute == InitUserRoute /\ [][NextUserRoute]_vars

----------------------------------------------------------------------------
(* Claims about the department operations, checked under SpecDept *)

\* the department list of clinic c in the clinics table cs
DeptsOf(cs, c) == OrEmpty(cs[c].departments)

DeptTargets == {1, UnknownClinic}

AddDepartmentCall(c, d) ==
  MemAddDepartmentToClinic(c, d) \/ PgAddDepartmentToClinic(c, d)

UpdateDepartmentCall(c, o, n) ==
  MemUpdateDepartmentInClinic(c, o, n) \/ PgUpdateDepartmentInClinic(c, o, n)

RemoveDepartmentCall(c, d) ==
  MemRemoveDepartmentFromClinic(c, d) \/ PgRemoveDepartmentFromClinic(c, d)

\* no two entries of the list are equal when lower-cased
NoCaseDuplicates(l) ==
  \A i, j \in 1..Len(l) : i # j => ToLowerCase(l[i]) # ToLowerCase(l[j])

\* C1: in both backends, a clinic whose department list has at least one
\* entry still has at least one entry after any addDepartmentToClinic,
\* updateDepartmentInClinic or removeDepartmentFromClinic call, whatever
\* it returns and whatever names it is given.
C1_DepartmentsStayNonEmpty ==
  [][\A c \in DOMAIN clinics \cap DOMAIN clinics' :
       ( /\ ret'.op \in {"addDepartmentToClinic", "updateDepartmentInClinic",
                         "removeDepartmentFromClinic"}
         /\ Len(DeptsOf(clinics, c)) >= 1 )
       => Len(DeptsOf(clinics', c)) >= 1]_vars

\* C3: in both backends, after updateDepartmentInClinic(c, old, new) has
\* returned true, every thought of clinic c that was filed under the name
\* stored in the renamed slot is filed under the name now stored there, and
\* every thought of another clinic is unchanged.
C3_RenameCascadesToThoughts ==
  [][\A c \in DeptTargets, o \in Names, n \in Names :
       ( /\ ret' = Returned("updateDepartmentInClinic", "true")
         /\ UpdateDepartmentCall(c, o, n) ) =>
         /\ \A i \in 1..Len(DeptsOf(clinics, c)), t \in DOMAIN thoughts :
              ( /\ DeptsOf(clinics, c)[i] # DeptsOf(clinics', c)[i]
                /\ thoughts[t].clinicId = c
                /\ thoughts[t].department = DeptsOf(clinics, c)[i] )
              => thoughts'[t].department = DeptsOf(clinics', c)[i]
         /\ \A t \in DOMAIN thoughts :
              thoughts[t].clinicId # c => thoughts'[t] = thoughts[t]]_vars

\* C4: in both backends, after removeDepartmentFromClinic(c, name) has
\* returned true and taken an entry out of the list, every thought of
\* clinic c that was filed under the removed entry is filed under the first
\* entry of the updated list, and, when the removed name is no longer in the
\* list, no thought of clinic c is filed under it.
C4_RemoveReassignsThoughts ==
  [][\A c \in DeptTargets, d \in Names :
       ( /\ ret' = Returned("removeDepartmentFromClinic", "true")
         /\ RemoveDepartmentCall(c, d) ) =>
         \A i \in 1..Len(DeptsOf(clinics, c)) :
           FilterIdx(DeptsOf(clinics, c), i, 1) = DeptsOf(clinics', c) =>
             \A t \in DOMAIN thoughts :
               thoughts[t].clinicId = c =>
                 /\ thoughts[t].department = DeptsOf(clinics, c)[i]
                      => thoughts'[t].department = DeptsOf(clinics', c)[1]
                 /\ ExactMatches(DeptsOf(clinics', c), DeptsOf(clinics, c)[i]) = {}
                      => thoughts'[t].department # DeptsOf(clinics, c)[i]]_vars

\* the cases in which removeDepartmentFromClinic(c, d) is to fail
RemoveMustFail(c, d) ==
  \/ c \notin DOMAIN clinics
  \/ Trim(d) = <<>>
  \/ \A i \in 1..Len(DeptsOf(clinics, c)) :
       ToLowerCase(DeptsOf(clinics, c)[i]) # ToLowerCase(Trim(d))
  \/ Len(DeptsOf(clinics, c)) = 1

\* C5: removeDepartmentFromClinic returns false and leaves the department
\* lists and every thought unchanged when the clinic is unknown, the trimmed
\* name is empty, the name is not in the list (compared case-insensitively)
\* or the list has exactly one entry.
C5_RemoveFailsUnchanged ==
  [][\A c \in DeptTargets, d \in Names :
       ( /\ ret'.op = "removeDepartmentFromClinic"
         /\ RemoveMustFail(c, d)
         /\ RemoveDepartmentCall(c, d) ) =>
         /\ ret'.value = "false"
         /\ clinics' = clinics
         /\ thoughts' = thoughts]_vars

\* C8: in both backends, a department list without two entries that are
\* equal case-insensitively has no such entries after any
\* addDepartmentToClinic or updateDepartmentInClinic call.
C8_NoCaseInsensitiveDuplicates ==
  [][\A c \in DeptTargets :
       ( /\ c \in DOMAIN clinics
         /\ NoCaseDuplicates(DeptsOf(clinics, c))
         /\ ret'.op \in {"addDepartmentToClinic", "updateDepartmentInClinic"} )
       => NoCaseDuplicates(DeptsOf(clinics', c))]_vars

\* the list removeDepartmentFromClinic(c, d) leaves in a known clinic whose
\* list is l
DepartmentsAfterRemove(l, d) ==
  IF backend = "mem"
  THEN IF MemRemoveAllowed(l, d) THEN MemUpdatedDepartments(l, d) ELSE l
  ELSE IF PgRemoveAllowed(l, d) THEN PgUpdatedDepts(l, d) ELSE l

\* C9 as claimed: for a clinic with at least one department and any name X,
\* addDepartmentToClinic(c, X) followed by removeDepartmentFromClinic(c, X)
\* leaves the list as it was before the add.
C9_RoundTripAnyName ==
  [][\A c \in DeptTargets, d \in Names :
       ( /\ ret'.op = "addDepartmentToClinic"
         /\ c \in DOMAIN clinics
         /\ Len(DeptsOf(clinics, c)) >= 1
         /\ AddDepartmentCall(c, d) )
       => DepartmentsAfterRemove(DeptsOf(clinics', c), d) = DeptsOf(clinics, c)]_vars

\* C9 as amended: for a clinic with at least one department and any name X
\* for which addDepartmentToClinic(c, X) returns true, a following
\* removeDepartmentFromClinic(c, X) leaves the list, element for element and
\* in the same order, as it was before the add.
C9_RoundTripAddedName ==
  [][\A c \in DeptTargets, d \in Names :
       ( /\ ret' = Returned("addDepartmentToClinic", "true")
         /\ c \in DOMAIN clinics
         /\ Len(DeptsOf(clinics, c)) >= 1
         /\ AddDepartmentCall(c, d) )
       => /\ DepartmentsAfterRemove(DeptsOf(clinics', c), d) = DeptsOf(clinics, c)
          /\ DeptsOf(clinics', c) # DeptsOf(clinics, c)]_vars

\* an untrimmed, differently cased name has been added to a list of two and
\* removing it again is allowed
C9_Witness ==
  /\ ret = Returned("addDepartmentToClinic", "true")
  /\ 1 \in DOMAIN clinics
  /\ Len(DeptsOf(clinics, 1)) = 3
  /\ \E d \in Names :
       /\ DeptsOf(clinics, 1)[3] \in {d, Trim(d)}
       /\ d # Trim(d)
       /\ Len(DepartmentsAfterRemove(DeptsOf(clinics, 1), d)) = 2

\* the cases in which updateDepartmentInClinic(c, o, n) is to fail
UpdateMustFail(c, o, n) ==
  \/ c \notin DOMAIN clinics
  \/ Trim(o) = <<>>
  \/ Trim(n) = <<>>
  \/ LowerMatches(DeptsOf(clinics, c), Trim(o)) = {}
  \/ \E i \in LowerMatches(DeptsOf(clinics, c), Trim(n)) :
       i # FirstIndex(LowerMatches(DeptsOf(clinics, c), Trim(o)))

\* C18: updateDepartmentInClinic returns false and leaves the department
\* lists and every thought unchanged when the clinic is unknown, a trimmed
\* name is empty, the old name is not in the list (case-insensitively) or
\* the new name equals, case-insensitively, the entry of another slot; when
\* it returns true the list keeps its length and every slot but one, which
\* holds the trimmed new name; and renaming an entry to another casing of
\* its own name returns true.
C18_RenameFailsOrRenamesInPlace ==
  [][\A c \in DeptTargets, o \in Names, n \in Names :
       ( /\ ret'.op = "updateDepartmentInClinic"
         /\ UpdateDepartmentCall(c, o, n) ) =>
         /\ UpdateMustFail(c, o, n)
              => /\ ret'.value = "false"
                 /\ clinics' = clinics
                 /\ thoughts' = thoughts
         /\ ret'.value = "true"
              => /\ Len(DeptsOf(clinics', c)) = Len(DeptsOf(clinics, c))
                 /\ \E i \in 1..Len(DeptsOf(clinics, c)) :
                      /\ DeptsOf(clinics', c)[i] = Trim(n)
                      /\ \A j \in 1..Len(DeptsOf(clinics, c)) :
                           j # i => DeptsOf(clinics', c)[j] = DeptsOf(clinics, c)[j]
         /\ ( /\ ~UpdateMustFail(c, o, n)
              /\ ToLowerCase(Trim(n)) = ToLowerCase(Trim(o))
              /\ Trim(n) # Trim(o) )
              => ret'.value = "true"]_vars

----------------------------------------------------------------------------
(* Claims about thoughts and their history, checked under Spec *)

\* the change types of the stored entries of thought t, oldest first
ChangeTypes(history, t) ==
  LET entries == EntriesOf(history, t)
  IN [i \in 1..Len(entries) |-> entries[i].changeType]

\* how many stored entries of thought t have the change type
CountOf(history, t, changeType) ==
  Cardinality({i \in 1..Len(history) :
                 history[i].thoughtId = t /\ history[i].changeType = changeType})

\* C2: in every state reached by gateway calls made one at a time, every
\* thought's editCount is the number of its history entries whose
\* changeType is "edited".
C2_EditCountMatchesHistory ==
  \A t \in DOMAIN thoughts :
    thoughts[t].editCount = CountOf(thoughtHistory, t, "edited")

\* a thought has been edited twice
C2_Witness ==
  \E t \in DOMAIN thoughts :
    thoughts[t].editCount = 2 /\ ret = Returned("updateThought", "value")

\* the calls that write a history entry when they succeed
HistoryWrites ==
  {Returned("createThought", "value"), Returned("updateThought", "value"),
   Returned("deleteThought", "true")}

\* C6: every gateway call leaves every stored history entry in place and
\* unchanged; the log only grows by appending, by exactly one entry for each
\* successful createThought, updateThought and deleteThought and by none for
\* any other call.
C6_HistoryAppendOnly ==
  [][/\ Len(thoughtHistory') >= Len(thoughtHistory)
     /\ SubSeq(thoughtHistory', 1, Len(thoughtHistory)) = thoughtHistory
     /\ Len(thoughtHistory') =
          Len(thoughtHistory) + (IF ret' \in HistoryWrites THEN 1 ELSE 0)]_vars

\* a thought was created, edited and deleted, and a department operation
\* has since rewritten the thought
C6_Witness ==
  /\ ret.op \in {"updateDepartmentInClinic", "removeDepartmentFromClinic"}
  /\ ret.value = "true"
  /\ \E t \in DOMAIN thoughts :
       /\ ChangeTypes(thoughtHistory, t) = <<"created", "edited", "deleted">>
       /\ thoughts[t].department # thoughtHistory[Len(thoughtHistory)].department

\* C7: createThought leaves exactly one entry, "created", for the new
\* thought; deleteThought on a thought whose only entry is that one leaves
\* exactly two, "created" then "deleted"; and the entries of every stored
\* thought start with its only "created" entry.
C7_CreateThenDelete ==
  [][\A t \in ThoughtIds :
       /\ ( /\ ret' = Returned("createThought", "value")
            /\ t \in DOMAIN thoughts' \ DOMAIN thoughts )
          => ChangeTypes(thoughtHistory', t) = <<"created">>
       /\ ( /\ ret' = Returned("deleteThought", "true")
            /\ ChangeTypes(thoughtHistory, t) = <<"created">>
            /\ EntriesOf(thoughtHistory', t) # EntriesOf(thoughtHistory, t) )
          => ChangeTypes(thoughtHistory', t) = <<"created", "deleted">>
       /\ t \in DOMAIN thoughts'
          => /\ ChangeTypes(thoughtHistory', t) # <<>>
             /\ ChangeTypes(thoughtHistory', t)[1] = "created"
             /\ CountOf(thoughtHistory', t, "created") = 1]_vars

\* a thought was created and then deleted
C7_Witness ==
  /\ ret = Returned("deleteThought", "true")
  /\ \E t \in DOMAIN thoughts :
       /\ thoughts[t].isDeleted
       /\ ChangeTypes(thoughtHistory, t) = <<"created", "deleted">>

UpdateThoughtCall(t, upd, u) ==
  MemUpdateThought(t, upd, u) \/ PgUpdateThought(t, upd, u)

DeleteThoughtCall(t, u) == MemDeleteThought(t, u) \/ PgDeleteThought(t, u)

MarkThoughtAsReadCall(t) == MemMarkThoughtAsRead(t) \/ PgMarkThoughtAsRead(t)

\* C14: markThoughtAsRead changes nothing but the isRead and readAt of the
\* thought it names: the history log, the users, the clinics, the id
\* counters, every other thought and every other field of that thought are
\* as before, whatever the call returns.
C14_MarkAsReadFrame ==
  [][\A t \in ThoughtIds :
       ( /\ ret'.op = "markThoughtAsRead"
         /\ MarkThoughtAsReadCall(t) ) =>
         /\ thoughtHistory' = thoughtHistory
         /\ users' = users
         /\ clinics' = clinics
         /\ <<currentUserId', currentClinicId', currentThoughtId', currentHistoryId'>>
              = <<currentUserId, currentClinicId, currentThoughtId, currentHistoryId>>
         /\ DOMAIN thoughts' = DOMAIN thoughts
         /\ \A o \in DOMAIN thoughts :
              thoughts'[o] =
                IF o = t
                THEN [thoughts[o] EXCEPT !.isRead = thoughts'[o].isRead,
                                         !.readAt = thoughts'[o].readAt]
                ELSE thoughts[o]]_vars

\* an edited thought has been marked as read beside one that is unread
C14_Witness ==
  /\ ret = Returned("markThoughtAsRead", "true")
  /\ \E t, o \in DOMAIN thoughts :
       /\ thoughts[t].isRead /\ thoughts[t].readAt = now
       /\ thoughts[t].editCount >= 1
       /\ ~thoughts[o].isRead
       /\ Len(thoughtHistory) >= 2

\* C15: updateThought, deleteThought and markThoughtAsRead called with an id
\* that is not in the store return undefined, false and false, do not
\* throw, and leave the store (thoughts, history log, users, clinics and id
\* counters) unchanged.
C15_NotFoundUnchanged ==
  [][\A t \in ThoughtIds :
       t \notin DOMAIN thoughts =>
         /\ ( /\ ret'.op = "updateThought"
              /\ \E upd \in ThoughtUpdates, u \in UserIds : UpdateThoughtCall(t, upd, u) )
            => ret'.value = "undefined" /\ store' = store
         /\ ( /\ ret'.op = "deleteThought"
              /\ \E u \in UserIds : DeleteThoughtCall(t, u) )
            => ret'.value = "false" /\ store' = store
         /\ ( /\ ret'.op = "markThoughtAsRead"
              /\ MarkThoughtAsReadCall(t) )
            => ret'.value = "false" /\ store' = store]_vars

\* deleteThought was called with an id that is not stored, beside a stored
\* thought and its history
C15_Witness ==
  /\ ret = Returned("deleteThought", "false")
  /\ DOMAIN thoughts # {} /\ DOMAIN thoughts # ThoughtIds
  /\ thoughtHistory # <<>>

\* C21: deleteThought by a stored user on a stored thought returns true;
\* when it returns true it has set isDeleted, deletedAt and deletedBy of
\* that thought and changed no other field and no other thought, and has
\* appended exactly one entry, "deleted", carrying the thought's title,
\* content, category and department with editedBy the deleting user; and
\* updateThought by a stored user on a deleted thought still returns the
\* thought, with editCount one higher.
C21_DeleteThoughtFrame ==
  [][\A t \in ThoughtIds, u \in UserIds :
       /\ ( /\ ret'.op = "deleteThought"
            /\ t \in DOMAIN thoughts
            /\ DeleteThoughtCall(t, u) ) =>
            /\ u \in DOMAIN users => ret'.value = "true"
            /\ ret'.value = "true" =>
                 /\ thoughts' = [thoughts EXCEPT ![t].isDeleted = TRUE,
                                                 ![t].deletedAt = now,
                                                 ![t].deletedBy = u]
                 /\ Len(thoughtHistory') = Len(thoughtHistory) + 1
                 /\ SubSeq(thoughtHistory', 1, Len(thoughtHistory)) = thoughtHistory
                 /\ LET entry == thoughtHistory'[Len(thoughtHistory')]
                    IN /\ entry.thoughtId = t
                       /\ entry.changeType = "deleted"
                       /\ entry.editedBy = u
                       /\ entry.title = thoughts[t].title
                       /\ entry.content = thoughts[t].content
                       /\ entry.category = thoughts[t].category
                       /\ entry.department = thoughts[t].department
       /\ ( /\ ret'.op = "updateThought"
            /\ t \in DOMAIN thoughts
            /\ thoughts[t].isDeleted
            /\ u \in DOMAIN users
            /\ \E upd \in ThoughtUpdates : UpdateThoughtCall(t, upd, u) ) =>
            /\ ret'.value = "value"
            /\ thoughts'[t].editCount = thoughts[t].editCount + 1]_vars

\* a read thought was deleted and then edited
C21_Witness ==
  /\ ret = Returned("updateThought", "value")
  /\ \E t \in DOMAIN thoughts :
       /\ thoughts[t].isDeleted /\ thoughts[t].isRead
       /\ thoughts[t].editCount = 1
       /\ ChangeTypes(thoughtHistory, t) = <<"created", "deleted", "edited">>

\* C24: no step removes a thought from the store, a thought that is
\* deleted stays deleted, and updateThought leaves deletedAt and deletedBy
\* of a deleted thought as they were.
C24_SoftDeleteOnly ==
  [][/\ DOMAIN thoughts \subseteq DOMAIN thoughts'
     /\ \A t \in DOMAIN thoughts :
          thoughts[t].isDeleted =>
            /\ thoughts'[t].isDeleted
            /\ ret'.op = "updateThought" =>
                 /\ thoughts'[t].deletedAt = thoughts[t].deletedAt
                 /\ thoughts'[t].deletedBy = thoughts[t].deletedBy]_vars

\* a deleted thought was edited, and its clinic was removed after that
C24_Witness ==
  /\ ret = Returned("deleteClinic", "true")
  /\ \E t \in DOMAIN thoughts :
       /\ thoughts[t].isDeleted
       /\ thoughts[t].deletedBy # NoId
       /\ thoughts[t].clinicId \notin DOMAIN clinics
       /\ ChangeTypes(thoughtHistory, t) = <<"created", "deleted", "edited">>

\* C26: for every thought with a history entry, the entry written last
\* for it carries the title, content, category and department the thought
\* has now.
C26_LatestEntryMatchesThought ==
  \A t \in DOMAIN thoughts :
    LET entries == EntriesOf(thoughtHistory, t)
    IN entries # <<>> =>
         LET latest == entries[Len(entries)]
         IN /\ latest.title = thoughts[t].title
            /\ latest.content = thoughts[t].content
            /\ latest.category = thoughts[t].category
            /\ latest.department = thoughts[t].department

----------------------------------------------------------------------------
(* Claims about reading thoughts, checked under SpecRead *)

ThoughtsByClinicCall(c, includeDeleted, filters) ==
  \/ MemGetThoughtsByClinic(c, includeDeleted, filters)
  \/ PgGetThoughtsByClinic(c, includeDeleted, filters)

\* the thoughts a query is to return: those of the clinic whose author is
\* stored and that satisfy every supplied filter
Wanted(c, includeDeleted, filters) ==
  {t \in DOMAIN thoughts :
     /\ thoughts[t].clinicId = c
     /\ thoughts[t].authorId \in DOMAIN users
     /\ includeDeleted \/ ~thoughts[t].isDeleted
     /\ filters.startDate # NoDate
          => thoughts[t].createdAt >= filters.startDate * TicksPerDay
     /\ filters.endDate # NoDate
          => thoughts[t].createdAt < (filters.endDate + 1) * TicksPerDay
     /\ filters.userId # NoId => thoughts[t].authorId = filters.userId
     /\ filters.department # Null => thoughts[t].department = filters.department
     /\ filters.includeRead = "false" => ~thoughts[t].isRead}

\* C12: in both backends getThoughtsByClinic(clinicId, includeDeleted,
\* filters) returns, once each, exactly the thoughts of the clinic whose
\* author is stored and that pass every supplied filter: not deleted unless
\* includeDeleted, created on or after startDate, created no later than the
\* end of the endDate day, written by userId, filed under department, and
\* unread when includeRead is false.
C12_FiltersCompose ==
  [][\A c \in ClinicIds, includeDeleted \in BOOLEAN, filters \in ReadFilters :
       ( /\ ret'.op = "getThoughtsByClinic"
         /\ ThoughtsByClinicCall(c, includeDeleted, filters) ) =>
         /\ {rows'[i].id : i \in 1..Len(rows')} = Wanted(c, includeDeleted, filters)
         /\ Len(rows') = Cardinality(Wanted(c, includeDeleted, filters))
         /\ \A i \in 1..Len(rows') : rows'[i].thought = thoughts[rows'[i].id]]_vars

\* C13: markThoughtAsRead called on a thought that is already read leaves
\* the whole store, the thought's readAt included, as it was.
C13_MarkAsReadIdempotent ==
  [][\A t \in DOMAIN thoughts :
       ( /\ ret'.op = "markThoughtAsRead"
         /\ thoughts[t].isRead
         /\ MarkThoughtAsReadCall(t) )
       => store' = store]_vars

\* C27: the number getUnreadThoughtsCount(c) returns is the number of
\* thoughts getThoughtsByClinic(c, false, {includeRead: false}) returns in
\* the same state.
C27_UnreadCountMatchesList ==
  [][\A c \in ClinicIds :
       ( /\ ret'.op = "getUnreadThoughtsCount"
         /\ \/ MemGetUnreadThoughtsCount(c)
            \/ PgGetUnreadThoughtsCount(c) ) =>
         LET unread == [NoFilters EXCEPT !.includeRead = "false"]
             lists == IF backend = "mem"
                      THEN {MemThoughtsByClinicRows(c, FALSE, unread)}
                      ELSE PgThoughtsByClinicRows(c, FALSE, unread)
         IN \A list \in lists : rows'[1] = Len(list)]_vars

----------------------------------------------------------------------------
(* Claims about getThoughtHistory, checked under SpecHistory *)

GetThoughtHistoryCall(t) == MemGetThoughtHistory(t) \/ PgGetThoughtHistory(t)

\* C10: in both backends getThoughtHistory of a stored thought returns at
\* least one entry; for a thought without stored entries it returns exactly
\* one, "created", carrying the thought's title, content, category,
\* department, authorId (as editedBy) and createdAt (as editedAt); and the
\* call writes nothing to the store.
C10_HistoryNeverEmpty ==
  [][\A t \in DOMAIN thoughts :
       ( /\ ret'.op = "getThoughtHistory"
         /\ GetThoughtHistoryCall(t) )
       => /\ Len(rows') >= 1
          /\ store' = store
          /\ EntriesOf(thoughtHistory, t) = <<>>
             => /\ Len(rows') = 1
                /\ rows'[1].changeType = "created"
                /\ rows'[1].thoughtId = t
                /\ rows'[1].title = thoughts[t].title
                /\ rows'[1].content = thoughts[t].content
                /\ rows'[1].category = thoughts[t].category
                /\ rows'[1].department = thoughts[t].department
                /\ rows'[1].editedBy = thoughts[t].authorId
                /\ rows'[1].editedAt = thoughts[t].createdAt]_vars

----------------------------------------------------------------------------
(* Claims about first-time setup and the clinics' department lists,        *)
(* checked under SpecSetup and SpecSetupRoute                               *)

SetupFirstAdminCall(role, departments) ==
  MemSetupFirstAdmin(role, departments) \/ PgSetupFirstAdmin(role, departments)

\* C16: in both backends setupFirstAdmin({user, clinic}) adds exactly one
\* clinic and exactly one user and changes no other; whatever role the
\* given user carries, the new user has role "admin" and the new clinic's
\* id as clinicId; the new clinic's departments are the given ones, or
\* ["General", "Administration"] when none were given.
C16_SetupCreatesAdminAndClinic ==
  [][\A role \in SetupRoles, departments \in ClinicLists :
       ( /\ ret'.op = "setupFirstAdmin"
         /\ SetupFirstAdminCall(role, departments) ) =>
         \E c \in DOMAIN clinics' \ DOMAIN clinics, u \in DOMAIN users' \ DOMAIN users :
           /\ DOMAIN clinics' = DOMAIN clinics \cup {c}
           /\ DOMAIN users' = DOMAIN users \cup {u}
           /\ \A o \in DOMAIN clinics : clinics'[o] = clinics[o]
           /\ \A o \in DOMAIN users : users'[o] = users[o]
           /\ users'[u].role = "admin"
           /\ users'[u].clinicId = c
           /\ clinics'[c].departments =
                IF departments = NullList THEN <<General, Administration>>
                ELSE departments]_vars

\* C17: however POST /api/system/setup requests interleave, at most one
\* of them runs setupFirstAdmin, so at most one clinic and one user exist
\* and setupFirstAdmin never runs once a user is stored.
C17_SetupRunsAtMostOnce ==
  /\ Cardinality({r \in Requests : requests[r].pc \in {"clinic", "done"}}) <= 1
  /\ Cardinality(DOMAIN users) <= 1
  /\ Cardinality(DOMAIN clinics) <= 1

\* C19: in every state reached through setupFirstAdmin, createClinic,
\* updateClinic and the department operations, every stored clinic has at
\* least one department.
C19_DepartmentsNeverEmpty ==
  \A c \in DOMAIN clinics : Len(DeptsOf(clinics, c)) >= 1

----------------------------------------------------------------------------
(* Claims about deleted users and clinics, checked under SpecUsers *)

DeleteUserCall(u) == MemDeleteUser(u) \/ PgDeleteUser(u)

DeleteClinicCall(c) == MemDeleteClinic(c) \/ PgDeleteClinic(c)

\* every result getThoughtHistory(t) can give in the current state
ThoughtHistoryResults(t) ==
  IF backend = "mem" THEN {MemThoughtHistoryRows(t)} ELSE PgThoughtHistoryRows(t)

\* C11: after a deleteUser(u) call, getThoughtHistory of any thought returns
\* as many entries edited by u as the store holds for that thought, and each
\* of them is joined with the placeholder user whose id is u.
C11_DanglingEditorsTolerated ==
  [][\A u \in UserIds :
       ( /\ ret'.op = "deleteUser"
         /\ DeleteUserCall(u) ) =>
         \A t \in ThoughtIds : \A result \in ThoughtHistoryResults(t)' :
           LET stored == {i \in 1..Len(thoughtHistory) :
                            /\ thoughtHistory[i].thoughtId = t
                            /\ thoughtHistory[i].editedBy = u}
               returned == {i \in 1..Len(result) : result[i].editedBy = u}
           IN /\ Cardinality(returned) = Cardinality(stored)
              /\ \A i \in returned : result[i].editedByUser = UnknownUser(u)]_vars

\* C20: after deleteClinic(c) has returned true, no user and no thought
\* with clinicId = c is left in the store.
C20_DeleteClinicDeletesDependents ==
  [][\A c \in ClinicIds :
       ( /\ ret' = Returned("deleteClinic", "true")
         /\ DeleteClinicCall(c) ) =>
         /\ \A u \in DOMAIN users' : users'[u].clinicId # c
         /\ \A t \in DOMAIN thoughts' : thoughts'[t].clinicId # c]_vars

----------------------------------------------------------------------------
(* Claims about PUT and DELETE /api/thoughts/:id, checked under            *)
(* SpecThoughtRoutes                                                        *)

\* C25: no step changes the clinicId or the authorId of a stored thought,
\* and a step of updateThought changes neither its isRead nor its readAt.
C25_OwnershipImmutable ==
  [][\A t \in DOMAIN thoughts :
       /\ thoughts'[t].clinicId = thoughts[t].clinicId
       /\ thoughts'[t].authorId = thoughts[t].authorId
       /\ ret'.op = "updateThought" =>
            /\ thoughts'[t].isRead = thoughts[t].isRead
            /\ thoughts'[t].readAt = thoughts[t].readAt]_vars

\* C28: a request of a user who is not an admin, and whose id is not the
\* authorId the handler read, is answered 403 at its step after the read,
\* with the store unchanged; and no request changes the store before that
\* step.
C28_OnlyAuthorOrAdminWrites ==
  [][\A r \in RouteRequests :
       requests'[r] # requests[r] =>
         /\ requests[r].pc \in {"start", "arrived", "authed"} =>
              UNCHANGED store
         /\ ( /\ requests[r].pc = "read"
              /\ requests[r].user.role # "admin"
              /\ requests[r].authorId # requests[r].user.id ) =>
              /\ requests'[r].pc = "done"
              /\ requests'[r].status = 403
              /\ UNCHANGED store]_vars

\* one user's request was answered 403 and the author's edit went through
C28_Witness ==
  /\ \E r \in RouteRequests :
       /\ requests[r].pc = "done" /\ requests[r].status = 403
       /\ requests[r].user.role = "user"
  /\ \E r \in RouteRequests :
       /\ requests[r].pc = "done" /\ requests[r].status = 200
       /\ requests[r].route = PutThought
       /\ requests[r].user.role = "user"
       /\ requests[r].authorId = requests[r].user.id
       /\ thoughts[requests[r].id].lastEditedBy = requests[r].user.id

----------------------------------------------------------------------------
(* Claims about GET /api/thoughts, checked under SpecListRoute *)

\* C29: the handler's step for a request of a user who is not an admin
\* either answers 200 with thoughts of the requester's clinic only, none
\* of them deleted, or answers with an error and returns no thought.
C29_UsersSeeOwnClinicOnly ==
  [][\A r \in RouteRequests :
       ( /\ requests[r].pc = "authed"
         /\ requests[r].route = GetThoughts
         /\ requests[r].user.role # "admin"
         /\ requests'[r] # requests[r] ) =>
         /\ requests'[r].pc = "done"
         /\ IF requests'[r].status = 200
            THEN /\ ret'.op = "getThoughtsByClinic"
                 /\ \A i \in DOMAIN rows' :
                      /\ rows'[i].thought.clinicId = requests[r].user.clinicId
                      /\ ~rows'[i].thought.isDeleted
            ELSE UNCHANGED <<ret, rows>>]_vars

\* a user was sent a thought of their clinic while the clinic holds a
\* deleted thought as well
C29_Witness ==
  /\ ret.op = "getThoughtsByClinic"
  /\ rows # <<>>
  /\ \E r \in RouteRequests :
       /\ requests[r].pc = "done" /\ requests[r].status = 200
       /\ requests[r].route = GetThoughts
       /\ requests[r].user.role = "user"
       /\ rows[1].thought.clinicId = requests[r].user.clinicId
       /\ \E t \in DOMAIN thoughts :
            /\ thoughts[t].clinicId = requests[r].user.clinicId
            /\ thoughts[t].isDeleted

----------------------------------------------------------------------------
(* Claims about DELETE /api/users/:id, checked under SpecUserRoute *)

\* C30: once setup has completed, hasAnyUsers() is true in every state.
C30_SetupStaysCompleted ==
  IF backend = "mem" THEN MemHasAnyUsers ELSE PgHasAnyUsers

----------------------------------------------------------------------------
(* Claims about concurrent department operations, checked under            *)
(* SpecDeptRace                                                             *)

\* the list left by the calls of the requests in order, run one after the
\* other on the list departments
RECURSIVE SerialDepts(_, _)
SerialDepts(departments, order) ==
  IF order = <<>> THEN departments
  ELSE LET outcome == DeptOutcome(requests[Head(order)].call, departments)
       IN SerialDepts((IF outcome.ok THEN outcome.updatedDepts ELSE departments),
                      Tail(order))

\* the orders in which the requests of a set can run one after the other
OrdersOf(set) ==
  {order \in [1..Cardinality(set) -> set] :
     \A i, j \in 1..Cardinality(set) : i # j => order[i] # order[j]}

\* C23: when no department operation is in flight, the list of clinic 1
\* is the list that the calls made so far leave when they run one after
\* the other in some order.
C23_DepartmentCallsSerialize ==
  LET done == {r \in RouteRequests : requests[r].pc = "done"}
      inFlight == {r \in RouteRequests : requests[r].pc \in {"called", "read"}}
  IN inFlight = {} =>
       \E order \in OrdersOf(done) :
         clinics[1].departments = SerialDepts(RouteClinics[1].departments, order)

----------------------------------------------------------------------------
(* Claims about concurrent updateThought calls, checked under              *)
(* SpecUpdateRace                                                           *)

\* C22: when no updateThought call is in flight, the editCount of every
\* thought is the number of calls that returned it, and the number of
\* its "edited" history entries.
C22_ConcurrentEditsCounted ==
  LET inFlight == {r \in RouteRequests :
                     requests[r].pc \in {"called", "read", "written"}}
  IN inFlight = {} =>
       \A t \in DOMAIN thoughts :
         /\ thoughts[t].editCount =
              Cardinality({r \in RouteRequests :
                             /\ requests[r].pc = "done"
                             /\ requests[r].value = "value"
                             /\ requests[r].id = t})
         /\ thoughts[t].editCount = CountOf(thoughtHistory, t, "edited")

====
